---- MODULE Spec2Model ----
(***************************************************************************)
(* Followers-fight simulation: the WebGL worker (src/unnamed/part_000) and *)
(* the 2D-canvas view (src/src/views/Home.vue).                            *)
(*                                                                         *)
(* Arithmetic is fixed point on integers:                                  *)
(*   positions and radii   tenths of a pixel                               *)
(*   velocities            pixels per second                               *)
(*   time                  milliseconds                                    *)
(*   multipliers           percent (hitBoostMul 1.05 = 105)                *)
(* Every division rounds to the nearest integer (RDiv), as a float         *)
(* operation rounds to the nearest representable value.                    *)
(***************************************************************************)
EXTENDS Integers, Sequences, FiniteSets, TLC

VARIABLES
    route,        \* which view is mounted: "gpu" (worker) or "home" (canvas)
    \* ---- worker (part_000) module-level state
    count, px, py, vx, vy, hp, aliveCount, winnerSent, paused, lastTime,
    cfg, lastR, started,
    gl,           \* whether getContext('webgl2') returned a context
    armed,        \* whether a call of loop() is due ('init' calls it, it re-arms)
    timers,       \* the setTimeout(loop, ...) callbacks that are pending
    lastAlivePulse, lastLabelsSent, labelIndices,
    now,          \* performance.now()
    \* ---- worker: what the last tick did, the fight so far, and when a
    \* 'resume' was processed that no tick and no 'reset' has followed (else 0)
    wobs, fight, resumedAt,
    \* ---- canvas view (Home.vue) state
    ps, winner, running, initialAlive, gScaleCurrent, params, stopTimers, seed,
    avatars,      \* whether followers.value is a list whose entries have avatarUrl
    build,        \* the call of buildParticles that is awaiting an image, if any
    \* ---- canvas: what the last frame did, and the fight so far
    cobs, cfight,
    \* ---- the growth target sampled along a sweep of the living count
    probe,
    \* ---- GPU view (Gpu.vue) state, and the two message queues between the
    \* view and its worker; epoch counts the 'reset' messages the worker handled
    view, inbox, outbox, epoch,
    \* ---- a run of buildLabelIndices (Gpu.vue)
    lab,
    \* ---- a call of pLimit from resolveAvatars (Parser.vue)
    pl,
    \* ---- budgets that keep the model finite
    ticks, msgs, toggles

wvars == <<count, px, py, vx, vy, hp, aliveCount, winnerSent, paused, lastTime,
           cfg, lastR, started, gl, armed, timers, lastAlivePulse, lastLabelsSent,
           labelIndices, now, wobs, fight, resumedAt>>
cvars == <<ps, winner, running, initialAlive, gScaleCurrent, params, stopTimers,
           seed, avatars, build, cobs, cfight>>
xvars == <<view, inbox, outbox, epoch, lab, pl>>
vars == <<route, wvars, cvars, probe, xvars, ticks, msgs, toggles>>

\* ------------------------------------------------------------------ bounds
MaxCount == 4
MaxTicks == 2
MaxMsgs == 1
MaxToggles == 2
MaxPop == 20
MaxN == 2
MaxTasks == 3
MaxLabels == 3
MaxUsers == 3
MaxAlive == 4
MaxPosts == 3

\* ----------------------------------------------------------------- helpers
Max(a, b) == IF a >= b THEN a ELSE b
Min(a, b) == IF a <= b THEN a ELSE b
Abs(a) == IF a < 0 THEN -a ELSE a

\* a / b rounded to the nearest integer, b > 0
RDiv(a, b) == IF a >= 0 THEN (2 * a + b) \div (2 * b)
              ELSE -((2 * (-a) + b) \div (2 * b))

\* the least integer >= a / b, b > 0 (Math.ceil)
CeilDiv(a, b) == -((-a) \div b)

RECURSIVE SqrtIter(_, _)
SqrtIter(n, x) ==
    LET y == (x + n \div x) \div 2
    IN IF y >= x THEN x ELSE SqrtIter(n, y)

\* Math.sqrt, rounded to the nearest integer
Sqrt(n) ==
    IF n <= 0 THEN 0
    ELSE CHOOSE q \in {IF n - r * r > r THEN r + 1 ELSE r : r \in {SqrtIter(n, n)}} : TRUE

\* part_000: clamp(v, a, b) = min(b, max(a, v))
clamp(v, a, b) == Min(b, Max(a, v))

\* v * pct / 100
Pct(v, pct) == RDiv(v * pct, 100)

RECURSIVE Flatten(_)
Flatten(ss) == IF Len(ss) = 0 THEN <<>> ELSE Head(ss) \o Flatten(Tail(ss))

\* the members of a set of integers as a sequence, largest first
RECURSIVE Descending(_)
Descending(S) ==
    IF S = {} THEN <<>>
    ELSE LET m == CHOOSE x \in S : \A y \in S : y <= x
         IN <<m>> \o Descending(S \ {m})

\* the Math.random() results of one tick: a heading <<cos, sin>> in
\* thousandths (for a velocity that is zero) and a draw in thousandths (for
\* a damage roll)
Rolls == {<<(<<1000, 0>>), 0>>, <<(<<-707, 707>>), 999>>}

\* ======================================================================
\* Worker (src/unnamed/part_000)
\* ======================================================================

\* canvas size in tenths of a device pixel ('init': m.width, m.height; dpr 1)
ArenaW == 480
ArenaH == 480

\* cfg, with the 'config' messages the model sends
CfgBase ==
    [radiusCss |-> 6, autoRadius |-> TRUE, radiusScaleMax |-> 3,
     speedCss |-> 80, minSpeedCss |-> 20, maxSpeedCss |-> 200,
     hitBoostMul |-> 105, wallBoostMul |-> 110,
     collisions |-> TRUE, cellSizePx |-> 24, maxPairsPerCell |-> 128,
     hpMax |-> 10, dmgHitMin |-> 6, dmgHitMax |-> 14]

CfgPresets ==
    {CfgBase,
     [CfgBase EXCEPT !.speedCss = 0, !.dmgHitMin = 10, !.dmgHitMax = 10,
                     !.hpMax = 20],
     [CfgBase EXCEPT !.collisions = FALSE, !.radiusCss = 8,
                     !.autoRadius = FALSE],
     [CfgBase EXCEPT !.maxPairsPerCell = 0]}

Agents == 0 .. (count - 1)

\* radiusDevice(), in tenths of a pixel (radiusScaleExp = 1)
radiusDevice ==
    LET alive == IF aliveCount > 0 THEN aliveCount ELSE count
        n == Max(1, count)
    IN IF ~cfg.autoRadius THEN 10 * cfg.radiusCss
       ELSE RDiv(10 * cfg.radiusCss * (n + (cfg.radiusScaleMax - 1) * (n - alive)), n)

\* a cell side that is the configured one whatever the radius
cellPxConfigured(currentRadius) ==
    10 * Max(8, CeilDiv(10 * cfg.cellSizePx, 10))

\* ensureGrid: the cell side, in tenths of a pixel, and the grid's size
cellPx(currentRadius) ==
    10 * Max(8, CeilDiv(Max(10 * cfg.cellSizePx, 2 * currentRadius), 10))
gridW(currentRadius) == Max(1, CeilDiv(ArenaW, cellPx(currentRadius)))
gridH(currentRadius) == Max(1, CeilDiv(ArenaH, cellPx(currentRadius)))

cellIndexFor(x, y, currentRadius) ==
    LET cx == clamp(x \div cellPx(currentRadius), 0, gridW(currentRadius) - 1)
        cy == clamp(y \div cellPx(currentRadius), 0, gridH(currentRadius) - 1)
    IN cy * gridW(currentRadius) + cx

\* buildGrid: the cell of every agent with hp > 0
cellOf(S, i, currentRadius) ==
    cellIndexFor(clamp(S.px[i], currentRadius, ArenaW - currentRadius),
                 clamp(S.py[i], currentRadius, ArenaH - currentRadius),
                 currentRadius)

\* buildGrid: a cell's linked list, head first (the last agent inserted)
cellList(S, cell, currentRadius) ==
    Descending({i \in DOMAIN S.hp :
                  S.hp[i] > 0 /\ cellOf(S, i, currentRadius) = cell})

\* hypot of a velocity in tenths of a pixel per second
HypotT(sx, sy) == Sqrt(100 * (sx * sx + sy * sy))

\* clampSpeed: the velocity <<sx, sy>> of one agent after the clamp, s being
\* its hypot
clampSpeedOf(v, s, ang) ==
    LET minS == cfg.minSpeedCss
        maxS == cfg.maxSpeedCss
    IN IF s < 10 * minS
       THEN IF s > 0
            THEN <<RDiv(v[1] * minS * 10, s), RDiv(v[2] * minS * 10, s)>>
            ELSE <<RDiv(ang[1] * minS, 1000), RDiv(ang[2] * minS, 1000)>>
       ELSE IF s > 10 * maxS
       THEN <<RDiv(v[1] * maxS * 10, s), RDiv(v[2] * maxS * 10, s)>>
       ELSE v

clampSpeed(v, ang) ==
    CHOOSE out \in {clampSpeedOf(w, HypotT(w[1], w[2]), ang) : w \in {v}} : TRUE

\* the simulation arrays as one record
Sim == [px |-> px, py |-> py, vx |-> vx, vy |-> vy, hp |-> hp]

\* step, "Integrate + walls": agent i after the integrator
integrateOne(S, i, dt, r, ang) ==
    LET maxX == ArenaW - r
        maxY == ArenaH - r
        wb == cfg.wallBoostMul
        x0 == S.px[i] + RDiv(S.vx[i] * dt, 100)
        y0 == S.py[i] + RDiv(S.vy[i] * dt, 100)
        hitX == x0 < r \/ x0 > maxX
        x1 == IF x0 < r THEN r ELSE IF x0 > maxX THEN maxX ELSE x0
        vxa == IF hitX THEN Pct(-S.vx[i], wb) ELSE S.vx[i]
        vya == IF hitX THEN Pct(S.vy[i], wb) ELSE S.vy[i]
        hitY == y0 < r \/ y0 > maxY
        y1 == IF y0 < r THEN r ELSE IF y0 > maxY THEN maxY ELSE y0
        vxb == IF hitY THEN Pct(vxa, wb) ELSE vxa
        vyb == IF hitY THEN Pct(-vya, wb) ELSE vya
        v == clampSpeed(<<RDiv(vxb * 999, 1000), RDiv(vyb * 999, 1000)>>, ang)
    IN [x |-> x1, y |-> y1, vx |-> v[1], vy |-> v[2]]

integrate(S, dt, r, ang) ==
    LET A == DOMAIN S.hp
        all == [i \in A |->
                  IF S.hp[i] <= 0                                  \* continue
                  THEN [x |-> S.px[i], y |-> S.py[i], vx |-> S.vx[i], vy |-> S.vy[i]]
                  ELSE integrateOne(S, i, dt, r, ang)]
    IN CHOOSE out \in {[S EXCEPT !.px = [i \in A |-> m[i].x],
                                 !.py = [i \in A |-> m[i].y],
                                 !.vx = [i \in A |-> m[i].vx],
                                 !.vy = [i \in A |-> m[i].vy]] : m \in {all}} : TRUE

\* the damage roll: dmin + Math.random() * (dmax - dmin)
damageRoll(u) ==
    LET dmin == Min(cfg.dmgHitMin, cfg.dmgHitMax)
        dmax == Max(cfg.dmgHitMin, cfg.dmgHitMax)
    IN dmin + RDiv(u * (dmax - dmin), 1000)

\* step, the body of the pair loop: circle test, split correction, impulse,
\* boost & clamp, damage
narrowPhaseOf(S, i, j, rNow, ang, u, dist) ==
    LET dx == S.px[j] - S.px[i]
        dy == S.py[j] - S.py[i]
        rsum == rNow + rNow
        dist2 == dx * dx + dy * dy
        overlap == rsum - dist
        cx == IF dist2 = 0 THEN 0 ELSE RDiv(dx * overlap, 2 * dist)
        cy == IF dist2 = 0 THEN 0 ELSE RDiv(dy * overlap, 2 * dist)
        vnd == (S.vx[j] - S.vx[i]) * dx + (S.vy[j] - S.vy[i]) * dy
        \* jimp * nx with e = 1: -vn * nx = -vnd * dx / dist^2
        jx == IF vnd < 0 THEN RDiv(-vnd * dx, dist2) ELSE 0
        jy == IF vnd < 0 THEN RDiv(-vnd * dy, dist2) ELSE 0
        hb == cfg.hitBoostMul
        vi == clampSpeed(<<Pct(S.vx[i] - jx, hb), Pct(S.vy[i] - jy, hb)>>, ang)
        vj == clampSpeed(<<Pct(S.vx[j] + jx, hb), Pct(S.vy[j] + jy, hb)>>, ang)
        dmg == damageRoll(u)
    IN IF dist2 > rsum * rsum THEN S
       ELSE [S EXCEPT !.px[i] = @ - cx, !.py[i] = @ - cy,
                      !.px[j] = @ + cx, !.py[j] = @ + cy,
                      !.vx[i] = vi[1], !.vy[i] = vi[2],
                      !.vx[j] = vj[1], !.vy[j] = vj[2],
                      !.hp[i] = @ - dmg, !.hp[j] = @ - dmg,
                      !.hits = @ \o <<(<<i, j>>)>>]

\* dist = Math.sqrt(dist2) || 1e-6; a dist of 0 stands for the 1e-6 floor,
\* where dx = dy = 0 and so nx = ny = 0
narrowPhase(S, i, j, rNow, ang, u) ==
    CHOOSE out \in
        {narrowPhaseOf(T, i, j, rNow, ang, u,
                       Sqrt((T.px[j] - T.px[i]) * (T.px[j] - T.px[i])
                            + (T.py[j] - T.py[i]) * (T.py[j] - T.py[i])))
           : T \in {S}} : TRUE

\* a pair loop that lets one pair more than the cap through
RECURSIVE innerLoopOffByOne(_, _, _, _, _, _, _, _)
innerLoopOffByOne(S, base, other, i, js, rNow, ang, u) ==
    IF js = <<>> THEN S
    ELSE LET j == Head(js)
             pairsCap == Max(1, cfg.maxPairsPerCell)
         IN IF S.hp[j] <= 0 \/ (other = base /\ j <= i)
            THEN innerLoopOffByOne(S, base, other, i, Tail(js), rNow, ang, u)
            ELSE IF S.used[base] > pairsCap THEN S
            ELSE innerLoopOffByOne(
                     narrowPhase([S EXCEPT !.used[base] = @ + 1,
                                           !.seen = Append(@, <<S.pass, base, i, j>>)],
                                 i, j, rNow, ang, u),
                     base, other, i, Tail(js), rNow, ang, u)

\* step, the loop "for j = head[otherCell]" of one agent i of the base cell
RECURSIVE innerLoop(_, _, _, _, _, _, _, _)
innerLoop(S, base, other, i, js, rNow, ang, u) ==
    IF js = <<>> THEN S
    ELSE LET j == Head(js)
             pairsCap == Max(1, cfg.maxPairsPerCell)
         IN IF S.hp[j] <= 0 \/ (other = base /\ j <= i)
            THEN innerLoop(S, base, other, i, Tail(js), rNow, ang, u)
            ELSE IF S.used[base] >= pairsCap THEN S          \* break
            ELSE innerLoop(
                     narrowPhase([S EXCEPT !.used[base] = @ + 1,
                                           !.seen = Append(@, <<S.pass, base, i, j>>)],
                                 i, j, rNow, ang, u),
                     base, other, i, Tail(js), rNow, ang, u)

\* step, the loops over cells, offsets and the base cell's list: each entry
\* is <<baseCell, otherCell, i, the list of otherCell>>
pairGroups(S, rNow) ==
    LET gw == gridW(rNow)
        gh == gridH(rNow)
        rx == CeilDiv(2 * rNow, cellPx(rNow))
        ry == rx
        forward(o) == ~(o[2] = 0 /\ o[1] < 0)
        offs == SelectSeq(
                    Flatten([a \in 1 .. (ry + 1) |->
                               [b \in 1 .. (2 * rx + 1) |-> <<b - 1 - rx, a - 1>>]]),
                    forward)
        listOf == [c \in 0 .. (gw * gh - 1) |-> cellList(S, c, rNow)]
        ofCell(c, o) ==
            LET nxCell == (c % gw) + o[1]
                nyCell == (c \div gw) + o[2]
                other == nyCell * gw + nxCell
            IN IF nxCell < 0 \/ nxCell >= gw \/ nyCell < 0 \/ nyCell >= gh
               THEN <<>>
               ELSE [a \in 1 .. Len(listOf[c]) |->
                       <<c, other, listOf[c][a], listOf[other]>>]
    IN Flatten([k \in 1 .. (gw * gh) |->
                  Flatten([m \in 1 .. Len(offs) |-> ofCell(k - 1, offs[m])])])

RECURSIVE outerLoop(_, _, _, _, _)
outerLoop(S, groups, rNow, ang, u) ==
    IF groups = <<>> THEN S
    ELSE LET g == Head(groups)
         IN outerLoop(
                IF S.hp[g[3]] <= 0 THEN S
                ELSE innerLoop(S, g[1], g[2], g[3], g[4], rNow, ang, u),
                Tail(groups), rNow, ang, u)

\* step: one narrow-phase pass (buildGrid, then every cell); seen lists the
\* pairs that came to the circle test, as <<pass, baseCell, i, j>>
gridPass(S, rNow, ang, u) ==
    LET cells == 0 .. (gridW(rNow) * gridH(rNow) - 1)
        S0 == [px |-> S.px, py |-> S.py, vx |-> S.vx, vy |-> S.vy, hp |-> S.hp,
               hits |-> S.hits, seen |-> S.seen, pass |-> S.pass + 1,
               used |-> [c \in cells |-> 0]]
    IN outerLoop(S0, pairGroups(S0, rNow), rNow, ang, u)

\* step: "iterations": two passes when the radius grew by more than 10%
\* (_lastR is undefined before the first step: the comparison is false)
Undefined == -1
iterations(rNow) ==
    IF lastR # Undefined /\ 10 * rNow > 11 * lastR THEN 2 ELSE 1

RECURSIVE passes(_, _, _, _, _)
passes(S, n, rNow, ang, u) ==
    IF n = 0 THEN S ELSE passes(gridPass(S, rNow, ang, u), n - 1, rNow, ang, u)

\* step, collisions off: one sampled pair of the fallback
fallbackOne(S, smp, r, ang, u) ==
    LET i == smp[1]
        j == smp[2]
        dx == S.px[j] - S.px[i]
        dy == S.py[j] - S.py[i]
        rr == r + r
        hb == cfg.hitBoostMul
        vi == clampSpeed(<<Pct(S.vx[i], hb), Pct(S.vy[i], hb)>>, ang)
        vj == clampSpeed(<<Pct(S.vx[j], hb), Pct(S.vy[j], hb)>>, ang)
        dmg == damageRoll(u)
    IN IF i = j \/ S.hp[i] <= 0 \/ S.hp[j] <= 0 THEN S
       ELSE IF dx * dx + dy * dy < rr * rr
       THEN [S EXCEPT !.hp[i] = @ - dmg, !.hp[j] = @ - dmg,
                      !.vx[i] = vi[1], !.vy[i] = vi[2],
                      !.vx[j] = vj[1], !.vy[j] = vj[2],
                      !.hits = @ \o <<(<<i, j>>)>>]
       ELSE S

RECURSIVE fallback(_, _, _, _, _)
fallback(S, smps, r, ang, u) ==
    IF smps = <<>> THEN S
    ELSE fallback(fallbackOne(S, Head(smps), r, ang, u), Tail(smps), r, ang, u)

\* step, "hp01 & alive count": the agents with hp01 > 0
livingOf(h) ==
    LET maxHP == IF cfg.hpMax = 0 THEN 1 ELSE cfg.hpMax
    IN {i \in DOMAIN h : maxHP > 0 /\ h[i] > 0}

\* step(dt): the arrays after the integrator (mid) and at the end (end), the
\* new aliveCount, and whether a 'winner' message is posted.  ang, u and smp
\* are the Math.random() results of the tick.
resolve(mid, r, ang, u, smp) ==
    LET mid0 == [px |-> mid.px, py |-> mid.py, vx |-> mid.vx, vy |-> mid.vy,
                 hp |-> mid.hp, hits |-> <<>>, seen |-> <<>>, pass |-> 0]
    IN IF cfg.collisions
       THEN passes(mid0, iterations(r), r, ang, u)
       ELSE fallback(mid0, [k \in 1 .. Min(32, count \div 4) |-> smp], r, ang, u)

\* an outcome that posts 'winner' when at most one agent lives
outcomeAtMostOne(r, mid, fin) ==
    LET alive == Cardinality(livingOf(fin.hp))
        post == alive <= 1 /\ ~winnerSent
    IN [r |-> r, mid |-> mid, fin |-> fin, alive |-> alive, post |-> post,
        winnerSent |-> IF post THEN TRUE
                       ELSE IF alive > 1 THEN FALSE ELSE winnerSent,
        lastR |-> IF cfg.collisions THEN r ELSE lastR]

outcome(r, mid, fin) ==
    LET alive == Cardinality(livingOf(fin.hp))
        post == alive = 1 /\ ~winnerSent
    IN [r |-> r, mid |-> mid, fin |-> fin, alive |-> alive, post |-> post,
        winnerSent |-> IF post THEN TRUE
                       ELSE IF alive > 1 THEN FALSE ELSE winnerSent,
        lastR |-> IF cfg.collisions THEN r ELSE lastR]

step(dt, ang, u, smp) ==
    CHOOSE out \in
        UNION {UNION {{outcome(r, mid, fin) : fin \in {resolve(mid, r, ang, u, smp)}}
                        : mid \in {integrate(Sim, dt, r, ang)}}
                 : r \in {radiusDevice}} : TRUE

\* ---------------------------------------------------------- worker: inputs
\* initSim's Math.random() results: a position, a heading and the speed
\* factor (0.5 + Math.random()) * 0.5 in percent
Spots ==
    <<[x |-> 40, y |-> 100, ang |-> <<1000, 0>>, k |-> 50],
      [x |-> 130, y |-> 100, ang |-> <<-1000, 0>>, k |-> 50],
      [x |-> 243, y |-> 100, ang |-> <<-1000, 0>>, k |-> 25],
      [x |-> 400, y |-> 400, ang |-> <<0, 1000>>, k |-> 25],
      [x |-> 400, y |-> 400, ang |-> <<0, 1000>>, k |-> 25],
      [x |-> 200, y |-> 200, ang |-> <<-1000, 0>>, k |-> 50]>>
Layouts == {0, 3}
spotOf(i, layout) == Spots[((i + layout) % Len(Spots)) + 1]

\* time between two events, in ms
Elapsed == {16, 120}
MsgElapsed == {40}

\* what the last handler did: msg is the message it handled ("tick" for a step
\* of the loop), out the other messages it posted
NoObs == [ran |-> FALSE, post |-> FALSE, dt |-> 0, r |-> 0, pre |-> <<>>,
          mid |-> <<>>, hits |-> <<>>, seen |-> <<>>, smp |-> <<>>, resumed |-> 0,
          msg |-> "init", out |-> {}]
\* a fight of n agents begins; posted counts the 'winner' messages of the
\* fights before it, pausedAt is when the fight was last paused (0: never),
\* ko whether a tick of the fight took the living count from 2 to 0
NewFight(n, posted) ==
    [ticks |-> 0, winners |-> 0, prevAlive |-> n, start |-> n, before |-> posted,
     pausedAt |-> 0, ko |-> FALSE]

\* initSim(n): the arrays and aliveCount
placed(n, layout, c) ==
    LET A == 0 .. (n - 1)
        sp(i) == RDiv(c.speedCss * spotOf(i, layout).k, 100)
    IN /\ px' = [i \in A |-> spotOf(i, layout).x]
       /\ py' = [i \in A |-> spotOf(i, layout).y]
       /\ vx' = [i \in A |-> RDiv(spotOf(i, layout).ang[1] * sp(i), 1000)]
       /\ vy' = [i \in A |-> RDiv(spotOf(i, layout).ang[2] * sp(i), 1000)]
       /\ hp' = [i \in A |-> c.hpMax]
       /\ aliveCount' = n

\* initSim(n)
initSim(n, layout, c) ==
    /\ placed(n, layout, c)
    /\ winnerSent' = FALSE

\* -------------------------------------------------------- worker: actions
\* 'init' with a context: the state when it has run initGL and initSim and set
\* lastTime and paused, just before it calls loop()
InitDone ==
    /\ gl = TRUE
    /\ \E layout \in Layouts :
         LET A == 0 .. (count - 1)
             sp(i) == RDiv(cfg.speedCss * spotOf(i, layout).k, 100)
         IN /\ px = [i \in A |-> spotOf(i, layout).x]
            /\ py = [i \in A |-> spotOf(i, layout).y]
            /\ vx = [i \in A |-> RDiv(spotOf(i, layout).ang[1] * sp(i), 1000)]
            /\ vy = [i \in A |-> RDiv(spotOf(i, layout).ang[2] * sp(i), 1000)]
    /\ hp = [i \in 0 .. (count - 1) |-> cfg.hpMax]
    /\ aliveCount = count
    /\ lastTime = 1000
    /\ armed = TRUE
    /\ timers = 0
    /\ wobs = NoObs
    /\ fight = NewFight(count, 0)

\* an 'init' without a context that reports the error and still calls loop()
InitFailedArmed ==
    /\ gl = FALSE
    /\ px = <<>> /\ py = <<>> /\ vx = <<>> /\ vy = <<>> /\ hp = <<>>
    /\ aliveCount = 0
    /\ lastTime = 0
    /\ armed = TRUE
    /\ timers = 0
    /\ wobs = [NoObs EXCEPT !.out = {"error"}]
    /\ fight = NewFight(0, 0)

\* 'init' without a context: initGL throws, the catch posts 'error', and
\* initSim, the assignments after it and loop() are never reached
InitFailed ==
    /\ gl = FALSE
    /\ px = <<>> /\ py = <<>> /\ vx = <<>> /\ vy = <<>> /\ hp = <<>>
    /\ aliveCount = 0
    /\ lastTime = 0
    /\ armed = FALSE
    /\ timers = 0
    /\ wobs = [NoObs EXCEPT !.out = {"error"}]
    /\ fight = NewFight(0, 0)

\* the worker when the handler of 'init' has come to its call of loop() or
\* to its end
InitWorker ==
    /\ count \in 1 .. MaxCount
    /\ cfg \in CfgPresets
    /\ InitDone \/ InitFailed
    /\ winnerSent = FALSE
    /\ paused = FALSE
    /\ now = 1000
    /\ lastR = Undefined
    /\ started = FALSE
    /\ lastAlivePulse = 0
    /\ lastLabelsSent = 0
    /\ labelIndices = <<>>
    /\ resumedAt = 0

\* a loop that steps whether paused or not
dueAlways == armed

\* a call of loop() that sets its timer although the callback it ran from is
\* still counted as pending
rearmedKeeping(t) == t + 1

\* loop(): the pending callbacks when a call of loop() returns: the callback
\* it ran from (none for the call made by 'init') is gone, and the one
\* setTimeout(loop, ...) of the path taken is pending
rearmed(t) == (IF started THEN t - 1 ELSE t) + 1

\* loop(): whether a call that is due goes on to step; with paused set it
\* only re-arms its timer
due == armed /\ ~paused

\* loop(): the first call is made by 'init' itself, the later ones by timers.
\* A callback that finds paused set only re-arms its timer: it is no step.
loop(el, ang, u, smp) ==
    /\ route = "gpu"
    /\ due
    /\ ticks < MaxTicks
    /\ ticks' = ticks + 1
    /\ started' = TRUE
    /\ now' = IF started THEN now + el ELSE now
    /\ resumedAt' = 0
    /\ lastAlivePulse' = IF now' - lastAlivePulse >= 300 THEN now' ELSE lastAlivePulse
    /\ lastLabelsSent' = IF now' - lastLabelsSent >= 50 THEN now' ELSE lastLabelsSent
    /\ timers' = rearmed(timers)
    /\ UNCHANGED <<route, cvars, probe, count, cfg, paused, gl, armed, labelIndices,
                   msgs, toggles>>
    /\ LET dt == Min(50, now' - (IF lastTime = 0 THEN now' ELSE lastTime))
       IN \E res \in {step(dt, ang, u, smp)} :
            /\ lastTime' = now'
            /\ px' = res.fin.px
            /\ py' = res.fin.py
            /\ vx' = res.fin.vx
            /\ vy' = res.fin.vy
            /\ hp' = res.fin.hp
            /\ aliveCount' = res.alive
            /\ winnerSent' = res.winnerSent
            /\ lastR' = res.lastR
            /\ wobs' = [ran |-> TRUE, post |-> res.post, dt |-> dt,
                        r |-> res.r, pre |-> Sim, mid |-> res.mid,
                        hits |-> res.fin.hits, seen |-> res.fin.seen,
                        smp |-> IF cfg.collisions THEN <<>>
                                ELSE [k \in 1 .. Min(32, count \div 4) |-> smp],
                        resumed |-> resumedAt,
                        msg |-> "tick",
                        out |-> (IF now' - lastAlivePulse >= 300
                                 THEN {"alive"} ELSE {})
                                \cup (IF now' - lastLabelsSent >= 50
                                         /\ labelIndices # <<>>
                                      THEN {"labels"} ELSE {})]
            /\ fight' = [fight EXCEPT
                           !.ticks = @ + 1,
                           !.winners = @ + (IF res.post THEN 1 ELSE 0),
                           !.prevAlive = aliveCount,
                           !.ko = @ \/ (aliveCount = 2 /\ res.alive = 0)]

\* loop() called back with paused set: "setTimeout(loop, 16); return"
loopPaused ==
    /\ route = "gpu"
    /\ armed /\ paused /\ started
    /\ timers > 0
    /\ timers' = rearmed(timers)
    /\ UNCHANGED <<route, cvars, probe, xvars, ticks, msgs, toggles, count, px, py, vx, vy,
                   hp, aliveCount, winnerSent, paused, lastTime, cfg, lastR, started,
                   gl, armed, lastAlivePulse, lastLabelsSent, labelIndices, now,
                   wobs, fight, resumedAt>>

\* a message m is handled only after 'init' has returned; posted is what the
\* handler posts
Handled(el, m, posted) ==
    /\ route = "gpu"
    /\ started \/ ~armed
    /\ now' = now + el
    /\ wobs' = [NoObs EXCEPT !.msg = m, !.out = posted]
    /\ UNCHANGED <<route, cvars, probe, ticks, started, count, gl, armed, timers,
                   lastAlivePulse, lastLabelsSent>>

Message(el, m, posted) ==
    /\ Handled(el, m, posted)
    /\ msgs < MaxMsgs
    /\ msgs' = msgs + 1
    /\ UNCHANGED toggles

Toggle(el, m) ==
    /\ Handled(el, m, {})
    /\ toggles < MaxToggles
    /\ toggles' = toggles + 1
    /\ UNCHANGED <<msgs, labelIndices>>

\* what the 'pause' branch of onmessage assigns
pause ==
    /\ paused' = TRUE
    /\ fight' = [fight EXCEPT !.pausedAt = now']
    /\ UNCHANGED <<px, py, vx, vy, hp, aliveCount, winnerSent, lastTime, cfg,
                   lastR, resumedAt>>

\* onmessage, 'pause'
OnPause(el) == Toggle(el, "pause") /\ pause

\* 'resume' that leaves lastTime at the last tick before the pause
OnResumeStale(el) ==
    /\ Toggle(el, "resume")
    /\ paused' = FALSE
    /\ resumedAt' = now'
    /\ UNCHANGED <<px, py, vx, vy, hp, aliveCount, winnerSent, lastTime, cfg, lastR,
                   fight>>

\* what the 'resume' branch of onmessage assigns
resume ==
    /\ paused' = FALSE
    /\ lastTime' = now'
    /\ resumedAt' = now'
    /\ UNCHANGED <<px, py, vx, vy, hp, aliveCount, winnerSent, cfg, lastR, fight>>

\* onmessage, 'resume'
OnResume(el) == Toggle(el, "resume") /\ resume

\* 'reset' that leaves the winner latch as it is
OnResetLatched(el, layout) ==
    /\ Message(el, "reset", {})
    /\ placed(count, layout, cfg)
    /\ lastTime' = now'
    /\ paused' = FALSE
    /\ fight' = NewFight(count, fight.before + fight.winners)
    /\ resumedAt' = 0
    /\ UNCHANGED <<cfg, lastR, winnerSent, labelIndices>>

\* what the 'reset' branch of onmessage assigns
reset(layout) ==
    /\ initSim(count, layout, cfg)
    /\ lastTime' = now'
    /\ paused' = FALSE
    /\ fight' = NewFight(count, fight.before + fight.winners)
    /\ resumedAt' = 0
    /\ UNCHANGED <<cfg, lastR, labelIndices>>

\* onmessage, 'reset'
OnReset(el, layout) == Message(el, "reset", {}) /\ reset(layout)

\* what the 'config' branch of onmessage assigns
config(c) ==
    /\ cfg' = c
    /\ UNCHANGED <<px, py, vx, vy, hp, aliveCount, winnerSent, paused, lastTime,
                   lastR, fight, resumedAt, labelIndices>>

\* onmessage, 'config' with a value that differs from the one in use
OnConfig(el, c) == Message(el, "config", {}) /\ c # cfg /\ config(c)

\* onmessage, 'fps' and 'resize': maxFps and the canvas size
OnFpsOrResize(el, m) ==
    /\ Message(el, m, {})
    /\ UNCHANGED <<px, py, vx, vy, hp, aliveCount, winnerSent, paused, lastTime,
                   cfg, lastR, fight, resumedAt, labelIndices>>

\* whether initSim has allocated the arrays (count is never 0 here)
allocated == hp # <<>>

\* onmessage, 'hpSetAll'; without arrays the first hp[i] = v throws and the
\* catch posts 'error'
OnHpSetAll(el, v) ==
    /\ Message(el, "hpSetAll", IF allocated THEN {} ELSE {"error"})
    /\ IF allocated
       THEN /\ hp' = [i \in Agents |-> v]
            /\ aliveCount' = IF v > 0 THEN count ELSE 0
            /\ winnerSent' = FALSE
            /\ fight' = NewFight(IF v > 0 THEN count ELSE 0,
                                 fight.before + fight.winners)
       ELSE UNCHANGED <<hp, aliveCount, winnerSent, fight>>
    /\ UNCHANGED <<px, py, vx, vy, paused, lastTime, cfg, lastR, resumedAt,
                   labelIndices>>

\* what 'labelsConfig' posts: sendOnce calls sendLabels, which posts 'labels'
\* when there are indices, and throws on px[idx] when there are no arrays
labelsPosted(indices, sendOnce) ==
    IF ~sendOnce \/ indices = <<>> THEN {}
    ELSE IF allocated THEN {"labels"} ELSE {"error"}

\* what the 'labelsConfig' branch of onmessage assigns
labelsConfig(indices) ==
    /\ labelIndices' = indices
    /\ UNCHANGED <<px, py, vx, vy, hp, aliveCount, winnerSent, paused, lastTime,
                   cfg, lastR, fight, resumedAt>>

\* onmessage, 'labelsConfig' (no throttleMs: 50)
OnLabelsConfig(el, indices, sendOnce) ==
    /\ Message(el, "labelsConfig", labelsPosted(indices, sendOnce))
    /\ labelsConfig(indices)

\* the fallback's sampled pair; nothing is sampled when count >> 2 is 0
Samples == IF cfg.collisions \/ count \div 4 = 0 THEN {<<0, 0>>}
           ELSE {<<0, 1>>, <<2, 3>>, <<0, 3>>}

\* the configurations a 'config' message carries: the base one and the one
\* that turns the collisions off
ConfigsSent == {c \in CfgPresets : c = CfgBase \/ ~c.collisions}

NextWorker ==
    \/ \E el \in Elapsed, roll \in Rolls, smp \in Samples :
         loop(el, roll[1], roll[2], smp) /\ UNCHANGED xvars
    \/ \E el \in MsgElapsed, layout \in Layouts :
         OnReset(el, layout) /\ UNCHANGED xvars
    \/ \E el \in MsgElapsed, c \in ConfigsSent : OnConfig(el, c) /\ UNCHANGED xvars
    \/ \E el \in MsgElapsed, v \in {0, cfg.hpMax} :
         OnHpSetAll(el, v) /\ UNCHANGED xvars

\* ======================================================================
\* Canvas view (src/src/views/Home.vue)
\* ======================================================================

\* params, with the settings the model uses (deathFadeMs and jitter are
\* chosen so that a fade ends and a jitter shows within a few frames)
ParamsBase ==
    [maxFollowers |-> 200, baseHp |-> 10, damageMin |-> 6, damageMax |-> 14, elasticity |-> 80,
     speed |-> 140, endless |-> FALSE, minSpeed |-> 300, maxSpeed |-> 450,
     jitter |-> 60, accelOnHit |-> 118, accelOnWall |-> 110,
     deathFadeMs |-> 30, deathShrink |-> 10,
     growthEnabled |-> TRUE, growthMaxScale |-> 450, growthExponent |-> 1,
     growthStartSurvivors |-> 40, growthFullSurvivors |-> 5,
     growthSmoothSec |-> 900]

ParamPresets ==
    {ParamsBase,
     [ParamsBase EXCEPT !.endless = TRUE],
     [ParamsBase EXCEPT !.speed = 0, !.damageMin = 10, !.damageMax = 10,
                        !.elasticity = 100, !.baseHp = 20,
                        !.growthEnabled = FALSE]}

Null == -1

\* a + (b - a) * t, t in percent
lerp(a, b, t) == a + RDiv((b - a) * t, 100)

\* a smoothstep that leaves t as it is
smoothstepUnclamped(e0, e1, x) ==
    LET t == RDiv((x - e0) * 100, Max(1, e1 - e0))
    IN RDiv(t * t * (300 - 2 * t), 10000)

\* smoothstep, e0, e1 and x in thousandths, the result in percent
smoothstep(e0, e1, x) ==
    LET t == clamp(RDiv((x - e0) * 100, Max(1, e1 - e0)), 0, 100)
    IN RDiv(t * t * (300 - 2 * t), 10000)

living(P) == {i \in DOMAIN P : P[i].alive /\ ~P[i].dying}

\* getEffR, in tenths of a pixel; gScale and renderScale in percent
getEffR(p, gScale) ==
    IF p.dying THEN RDiv(p.r * p.renderScale * gScale, 10000)
    ELSE RDiv(p.r * gScale, 100)

\* targetGrowthScale for an initial population of n0 and parameters p, in
\* percent (growthExponent = 1)
growthTarget(alive, n0, p) ==
    LET N0 == Max(1, n0)
        aliveFrac == RDiv(1000 * alive, N0)
        startDead == 1000 - 10 * p.growthStartSurvivors
        fullDead == 1000 - 10 * p.growthFullSurvivors
        deadFrac == 1000 - aliveFrac
        t == smoothstep(startDead, fullDead, deadFrac)
    IN 100 + RDiv((p.growthMaxScale - 100) * t, 100)

\* targetGrowthScale, in percent
targetGrowthScale(alive) == growthTarget(alive, initialAlive, params)

\* updateGrowth: alpha = 1 - Math.pow(0.0001, dt / tau), in percent.  Every
\* caller passes the living count as dt; for a count of 1 or more and
\* tau <= 1 s, 0.0001 ^ (dt / tau) <= 0.0001 and alpha rounds to 100.
growthAlpha(dt) == IF dt <= 0 THEN 0 ELSE 100

\* updateGrowth(dt): the new gScaleCurrent
updateGrowth(cur, P, dt) ==
    IF ~params.growthEnabled THEN cur
    ELSE lerp(cur, targetGrowthScale(Cardinality(living(P))), growthAlpha(dt))

\* updateGrowth(dt): the value returned
growthReturned(cur, P, dt) ==
    IF ~params.growthEnabled THEN 100 ELSE updateGrowth(cur, P, dt)

\* a clamp that enforces maxSpeed only
enforceMaxOnly(w, v, ang) ==
    LET minV == Max(0, params.minSpeed)
        maxV == Max(minV, IF params.maxSpeed = 0 THEN minV + 1 ELSE params.maxSpeed)
    IN IF v > 10 * maxV
       THEN <<RDiv(w[1] * maxV * 10, v), RDiv(w[2] * maxV * 10, v)>>
       ELSE w

\* p.vx *= k, p.vy *= k with k = minV / v: a slow velocity is scaled with its
\* hypot taken at a finer resolution, so that the quotient keeps the model's
\* resolution of 1 px/s
scaleUp(w, minV) ==
    LET s2 == w[1] * w[1] + w[2] * w[2]
        K == IF s2 < 2000 THEN 1000 ELSE IF s2 < 200000 THEN 100 ELSE 10
        vK == Sqrt(K * K * s2)
    IN <<RDiv(w[1] * minV * K, vK), RDiv(w[2] * minV * K, vK)>>

\* enforceMinSpeed: the velocity after the clamp, v being its hypot in tenths
enforceMinSpeedOf(w, v, ang) ==
    LET minV == Max(0, params.minSpeed)
        maxV == Max(minV, IF params.maxSpeed = 0 THEN minV + 1 ELSE params.maxSpeed)
    IN IF v < 10 * minV
       THEN IF v = 0            \* v < 1e-3
            THEN <<RDiv(ang[1] * minV, 1000), RDiv(ang[2] * minV, 1000)>>
            ELSE scaleUp(w, minV)
       ELSE IF v > 10 * maxV
       THEN <<RDiv(w[1] * maxV * 10, v), RDiv(w[2] * maxV * 10, v)>>
       ELSE w

enforceMinSpeed(w, ang) ==
    CHOOSE out \in {enforceMinSpeedOf(x, HypotT(x[1], x[2]), ang) : x \in {w}} : TRUE

\* a death timer whose expiry returns the particle to the fight
deathAnimRevive(p, dt) ==
    IF ~p.dying THEN p
    ELSE LET left == p.deathLeft - dt
             t == clamp(RDiv(100 * left, params.deathFadeMs), 0, 100)
         IN [p EXCEPT !.deathLeft = left,
                      !.renderScale = lerp(params.deathShrink, 100, t),
                      !.dying = left > 0,
                      !.alive = TRUE]

\* step, "update death anim"
deathAnim(p, dt) ==
    IF ~p.dying THEN p
    ELSE LET left == p.deathLeft - dt
             t == clamp(RDiv(100 * left, params.deathFadeMs), 0, 100)
         IN [p EXCEPT !.deathLeft = left,
                      !.renderScale = lerp(params.deathShrink, 100, t),
                      !.dying = left > 0,
                      !.alive = left > 0]

\* step, "walls with effective radius": four independent tests
wallsOf(p, effR) ==
    LET el == params.elasticity
        aw == params.accelOnWall
        p1 == IF p.x - effR < 0
              THEN [p EXCEPT !.x = effR, !.vx = Pct(Pct(-p.vx, el), aw),
                             !.vy = Pct(p.vy, aw)]
              ELSE p
        p2 == IF p1.x + effR > ArenaW
              THEN [p1 EXCEPT !.x = ArenaW - effR, !.vx = Pct(Pct(-p1.vx, el), aw),
                              !.vy = Pct(p1.vy, aw)]
              ELSE p1
        p3 == IF p2.y - effR < 0
              THEN [p2 EXCEPT !.y = effR, !.vy = Pct(Pct(-p2.vy, el), aw),
                              !.vx = Pct(p2.vx, aw)]
              ELSE p2
    IN IF p3.y + effR > ArenaH
       THEN [p3 EXCEPT !.y = ArenaH - effR, !.vy = Pct(Pct(-p3.vy, el), aw),
                       !.vx = Pct(p3.vx, aw)]
       ELSE p3

\* step, "mild damping then jitter" and enforceMinSpeed
dampJitter(p, dt, jit, ang) ==
    LET jx == RDiv(jit[1] * params.jitter, 1000)
        jy == RDiv(jit[2] * params.jitter, 1000)
        v == enforceMinSpeed(<<RDiv(p.vx * 999, 1000) + RDiv(jx * dt, 1000),
                               RDiv(p.vy * 999, 1000) + RDiv(jy * dt, 1000)>>, ang)
    IN [p EXCEPT !.vx = v[1], !.vy = v[2]]

\* step, the integrator loop body for one particle
cIntegrateOne(p, dt, gScale, jit, ang) ==
    IF ~p.alive /\ ~p.dying THEN p                                    \* continue
    ELSE CHOOSE out \in
           {dampJitter(
                wallsOf([q EXCEPT !.x = @ + RDiv(q.vx * dt, 100),
                                  !.y = @ + RDiv(q.vy * dt, 100)],
                        getEffR(q, gScale)),
                dt, jit, ang) : q \in {deathAnim(p, dt)}} : TRUE

\* buildGrid: the cell <<cx, cy>> of a position
cellKey(p, cell) == <<p.x \div cell, p.y \div cell>>

\* neighbors(i): the indices yielded, in order, for the grid built from G
\* (the particles when buildGrid ran) and the particle's own position now
neighbors(i, P, G, cell) ==
    LET me == cellKey(P[i], cell)
        bucket(k) == {j \in DOMAIN G : (G[j].alive \/ G[j].dying)
                                        /\ cellKey(G[j], cell) = k}
        asc(S) == LET d == Descending(S) IN [n \in 1 .. Len(d) |-> d[Len(d) + 1 - n]]
        keys == Flatten([a \in 1 .. 3 |-> [b \in 1 .. 3 |->
                                             <<me[1] + a - 2, me[2] + b - 2>>]])
        above(j) == j > i
    IN SelectSeq(Flatten([n \in 1 .. Len(keys) |-> asc(bucket(keys[n]))]), above)

\* death handling that drops the particle at once, and death handling that
\* ignores endless
deathHandlingDrop(p, spot) ==
    IF p.hp <= 0 /\ (p.alive \/ ~p.dying)
    THEN [p EXCEPT !.alive = FALSE, !.dying = TRUE,
                   !.deathLeft = params.deathFadeMs, !.renderScale = 100]
    ELSE p

deathHandlingFade(p, spot) ==
    IF p.hp <= 0 /\ (p.alive \/ ~p.dying)
    THEN [p EXCEPT !.dying = TRUE, !.deathLeft = params.deathFadeMs,
                   !.renderScale = 100]
    ELSE p

\* step, "death handling" of one particle of a colliding pair
deathHandling(p, spot) ==
    IF p.hp <= 0 /\ (p.alive \/ ~p.dying)
    THEN IF params.endless
         THEN [p EXCEPT !.x = spot.x, !.y = spot.y,
                        !.vx = Pct(RDiv(spot.vx * 80, 1000), params.speed),
                        !.vy = Pct(RDiv(spot.vy * 80, 1000), params.speed),
                        !.hp = p.maxHp, !.dying = FALSE, !.renderScale = 100]
         ELSE [p EXCEPT !.dying = TRUE, !.deathLeft = params.deathFadeMs,
                        !.renderScale = 100]
    ELSE p

\* step, the body of the pair loop for a = ps[i], b = ps[j]
cCollideOf(P, i, j, gScale, ang, u, spot, dist) ==
    LET a == P[i]
        b == P[j]
        dx == b.x - a.x
        dy == b.y - a.y
        rsum == getEffR(a, gScale) + getEffR(b, gScale)
        dist2 == dx * dx + dy * dy
        overlap == rsum - dist
        cx == IF dist2 = 0 THEN 0 ELSE RDiv(dx * overlap, 2 * dist)
        cy == IF dist2 = 0 THEN 0 ELSE RDiv(dy * overlap, 2 * dist)
        vnd == (b.vx - a.vx) * dx + (b.vy - a.vy) * dy
        vn == IF vnd < 0 THEN RDiv(vnd, dist) ELSE 0
        \* imp * nx * 0.5 = -(1 + e) * vn * nx / 2
        ix == IF vnd < 0
              THEN RDiv(-(100 + params.elasticity) * vn * dx, 200 * dist) ELSE 0
        iy == IF vnd < 0
              THEN RDiv(-(100 + params.elasticity) * vn * dy, 200 * dist) ELSE 0
        ah == params.accelOnHit
        dmin == Min(params.damageMin, params.damageMax)
        dmax == Max(params.damageMin, params.damageMax)
        dmg == dmin + RDiv(u * (dmax - dmin), 1000)
        a1 == deathHandling([a EXCEPT !.x = @ - cx, !.y = @ - cy,
                                      !.vx = Pct(a.vx - ix, ah),
                                      !.vy = Pct(a.vy - iy, ah),
                                      !.hp = @ - dmg], spot)
        b1 == deathHandling([b EXCEPT !.x = @ + cx, !.y = @ + cy,
                                      !.vx = Pct(b.vx + ix, ah),
                                      !.vy = Pct(b.vy + iy, ah),
                                      !.hp = @ - dmg], spot)
        va == enforceMinSpeed(<<a1.vx, a1.vy>>, ang)
        vb == enforceMinSpeed(<<b1.vx, b1.vy>>, ang)
    IN IF ~(b.alive /\ ~b.dying) THEN P                               \* continue
       ELSE IF dist2 <= rsum * rsum
       THEN [P EXCEPT ![i] = [a1 EXCEPT !.vx = va[1], !.vy = va[2]],
                      ![j] = [b1 EXCEPT !.vx = vb[1], !.vy = vb[2]]]
       ELSE P

\* dist = Math.sqrt(dist2) || 0.0001; a dist of 0 stands for the 0.0001
\* floor, where dx = dy = 0 and so nx = ny = 0
cCollide(P, i, j, gScale, ang, u, spot) ==
    CHOOSE out \in
        {cCollideOf(Q, i, j, gScale, ang, u, spot,
                    Sqrt((Q[j].x - Q[i].x) * (Q[j].x - Q[i].x)
                         + (Q[j].y - Q[i].y) * (Q[j].y - Q[i].y)))
           : Q \in {P}} : TRUE

RECURSIVE cInner(_, _, _, _, _, _, _)
cInner(P, i, js, gScale, ang, u, spot) ==
    IF js = <<>> THEN P
    ELSE cInner(cCollide(P, i, Head(js), gScale, ang, u, spot),
                i, Tail(js), gScale, ang, u, spot)

\* step, "collisions via grid": the loop over i from k on; seen lists the
\* pairs <<i, j>> that neighbors has yielded
RECURSIVE cOuter(_, _, _, _, _, _, _, _, _)
cOuter(P, k, G, cell, gScale, ang, u, spot, seen) ==
    IF k \notin DOMAIN P THEN [ps |-> P, seen |-> seen]
    ELSE IF ~(P[k].alive /\ ~P[k].dying)
    THEN cOuter(P, k + 1, G, cell, gScale, ang, u, spot, seen)
    ELSE LET js == neighbors(k, P, G, cell)
         IN cOuter(cInner(P, k, js, gScale, ang, u, spot),
                   k + 1, G, cell, gScale, ang, u, spot,
                   seen \o [n \in 1 .. Len(js) |-> <<k, js[n]>>])

\* step, the grid's cell size, in tenths of a pixel
cellSize(P, gScale) ==
    LET rs == {getEffR(P[i], gScale) : i \in living(P)}
        maxEffR == IF rs = {} THEN 0 ELSE CHOOSE r \in rs : \A q \in rs : q <= r
    IN 10 * Max(16, CeilDiv(2 * maxEffR, 10))

cCollisions(P, gScale, ang, u, spot) ==
    cOuter(P, 0, P, cellSize(P, gScale), gScale, ang, u, spot, <<>>)

\* step, "winner check (non-endless)": the champion, or Null
champOf(P) ==
    IF ~params.endless /\ Cardinality(living(P)) = 1
    THEN CHOOSE i \in living(P) : TRUE
    ELSE Null

winnerCheck(P) ==
    IF champOf(P) = Null THEN P
    ELSE [P EXCEPT ![champOf(P)] =
            [@ EXCEPT !.x = ArenaW \div 2, !.y = ArenaH \div 3, !.vx = 0, !.vy = 0]]

\* step(dt, ctx): the particles after the integrator (mid), after the
\* collisions (col) and at the end (fin), with the growth scale used
cStepOf(gs, mid, c) ==
    [gScale |-> gs, mid |-> mid, col |-> c.ps, seen |-> c.seen,
     fin |-> winnerCheck(c.ps), champ |-> champOf(c.ps)]

cStep(dt, jit, ang, u, spot) ==
    LET gs == growthReturned(gScaleCurrent, ps, Cardinality(living(ps)))
        mid == [i \in DOMAIN ps |-> cIntegrateOne(ps[i], dt, gs, jit, ang)]
    IN CHOOSE out \in
         {cStepOf(g, m, cCollisions(m, g, ang, u, spot)) :
            g \in {gs}, m \in {mid}} : TRUE

\* ---------------------------------------------------------- canvas: inputs
\* buildParticles' rng() results: a position, rng() * 2 - 1 for each velocity
\* component (thousandths) and the radius lerp(radiusMin, radiusMax, rng())
CSpots ==
    <<[x |-> 255, y |-> 100, vx |-> 1000, vy |-> 0, r |-> 40],
      [x |-> 315, y |-> 100, vx |-> -1000, vy |-> 0, r |-> 40],
      [x |-> 150, y |-> 100, vx |-> -500, vy |-> 0, r |-> 50],
      [x |-> 400, y |-> 400, vx |-> 0, vy |-> 1000, r |-> 40],
      [x |-> 400, y |-> 400, vx |-> 0, vy |-> 1000, r |-> 40],
      [x |-> 200, y |-> 200, vx |-> -1000, vy |-> 0, r |-> 50]>>
cSpotOf(i, layout) == CSpots[((i + layout) % Len(CSpots)) + 1]

\* (rng() * 2 - 1) for the two jitter components, in thousandths
Jitters == {<<1000, -1000>>}

\* the rng() results of an endless respawn
Respawns == {[x |-> 240, y |-> 240, vx |-> 1000, vy |-> 0]}

NoFrame == [ran |-> FALSE, dt |-> 0, gPre |-> 100, gScale |-> 100, pre |-> <<>>,
            mid |-> <<>>, col |-> <<>>, seen |-> <<>>, champ |-> Null]
\* a fight of n particles begins; plain (endless) records that every tick
\* of the fight so far ran with endless off (on)
NewCFight(n) == [ticks |-> 0, raised |-> 0, timers |-> 0, prevLiving |-> n,
                 plain |-> TRUE, endless |-> TRUE, ko |-> FALSE]

\* followers.value is empty: 100000 generated followers are offered
Followers == 100000

\* buildParticles: the particle built from the k-th group of results of the
\* rng seeded with layout
newParticle(k, layout) ==
    [x |-> cSpotOf(k, layout).x, y |-> cSpotOf(k, layout).y,
     vx |-> Pct(RDiv(cSpotOf(k, layout).vx * 80, 1000), params.speed),
     vy |-> Pct(RDiv(cSpotOf(k, layout).vy * 80, 1000), params.speed),
     r |-> cSpotOf(k, layout).r,
     hp |-> params.baseHp, maxHp |-> params.baseHp,
     alive |-> TRUE, dying |-> FALSE, deathLeft |-> 0, renderScale |-> 100]

\* buildParticles: the particles built for n followers
built(n, layout) ==
    [i \in 0 .. (Min(n, params.maxFollowers) - 1) |-> newParticle(i, layout)]

\* no call of buildParticles is awaiting; s is the seed of the last call, made
\* with the params.speed of now
NoBuild(s) == [on |-> FALSE, kind |-> "", seed |-> s, speed |-> params.speed,
               n |-> 0, loaded |-> <<>>, used |-> 0]

\* buildParticles when nothing is awaited
buildParticles ==
    /\ ps' = built(Followers, seed)
    /\ initialAlive' = Min(Followers, params.maxFollowers)
    /\ winner' = Null
    /\ running' = TRUE
    /\ cfight' = NewCFight(Min(Followers, params.maxFollowers))
    /\ cobs' = NoFrame
    /\ build' = NoBuild(seed)

\* --------------------------------------------------------- canvas: actions
\* the view when onMounted has run: no particles yet, the loop requested
InitCanvas ==
    /\ ps = <<>>
    /\ winner = Null
    /\ running = TRUE
    /\ initialAlive = 0
    /\ gScaleCurrent = 100
    /\ \E c \in ParamPresets, n \in 1 .. MaxCount :
         params = [c EXCEPT !.maxFollowers = n]
    /\ seed \in Layouts
    /\ stopTimers = 0
    /\ avatars \in BOOLEAN
    /\ build = NoBuild(seed)
    /\ cobs = NoFrame
    /\ cfight = NewCFight(0)

\* loop(t), a requestAnimationFrame callback, el ms after the one before;
\* it returns at once when running is false
Frame(el, jit, ang, u, spot) ==
    /\ route = "home"
    /\ running
    /\ ticks < MaxTicks
    /\ ticks' = ticks + 1
    /\ \E res \in {cStep(clamp(el, 0, 33), jit, ang, u, spot)} :
         /\ ps' = res.fin
         /\ gScaleCurrent' =
              updateGrowth(updateGrowth(gScaleCurrent, ps, Cardinality(living(ps))),
                           res.fin, Cardinality(living(res.fin)))
         /\ winner' = IF res.champ # Null THEN res.champ ELSE winner
         /\ stopTimers' = stopTimers + (IF res.champ # Null THEN 1 ELSE 0)
         /\ cobs' = [ran |-> TRUE, dt |-> clamp(el, 0, 33),
                     gPre |-> gScaleCurrent, gScale |-> res.gScale,
                     pre |-> ps, mid |-> res.mid, col |-> res.col,
                     seen |-> res.seen, champ |-> res.champ]
         /\ cfight' = [ticks |-> cfight.ticks + 1,
                       raised |-> cfight.raised + (IF res.champ # Null THEN 1 ELSE 0),
                       timers |-> cfight.timers + (IF res.champ # Null THEN 1 ELSE 0),
                       prevLiving |-> Cardinality(living(ps)),
                       plain |-> cfight.plain /\ ~params.endless,
                       endless |-> cfight.endless /\ params.endless,
                       ko |-> cfight.ko \/ (/\ Cardinality(living(ps)) = 2
                                            /\ living(res.fin) = {})]
    \* the integrator calls rng() for every particle that is not dead
    /\ build' = IF build.on /\ \E i \in DOMAIN ps : ps[i].alive \/ ps[i].dying
                THEN [build EXCEPT !.used = @ + 1]
                ELSE build
    /\ UNCHANGED <<route, wvars, probe, xvars, running, initialAlive, params, seed, avatars,
                   msgs, toggles>>

\* the callback of setTimeout(() => running.value = false, deathFadeMs + 100)
StopTimer ==
    /\ route = "home"
    /\ stopTimers > 0
    /\ stopTimers' = stopTimers - 1
    /\ running' = FALSE
    /\ cobs' = NoFrame
    /\ UNCHANGED <<route, wvars, probe, xvars, ps, winner, initialAlive, gScaleCurrent,
                   params, seed, avatars, build, cfight, ticks, msgs, toggles>>

\* a click or an input of the view; the first Start of an empty view is free
Input ==
    /\ route = "home"
    /\ msgs < MaxMsgs \/ ps = <<>>
    /\ msgs' = IF ps = <<>> THEN msgs ELSE msgs + 1
    /\ UNCHANGED <<route, wvars, probe, xvars, ticks, toggles, avatars>>

\* onStart (followers without avatars: nothing is awaited); s is the
\* Math.floor(Math.random() * 100) that becomes the next seed
onStart(s) ==
    /\ Input
    /\ ~avatars
    /\ buildParticles
    /\ seed' = s
    /\ UNCHANGED <<gScaleCurrent, params, stopTimers>>

\* onReset: running.value = false, then buildParticles sets it again
onReset ==
    /\ Input
    /\ ~avatars
    /\ ps # <<>>
    /\ buildParticles
    /\ UNCHANGED <<gScaleCurrent, params, stopTimers, seed>>

\* a change of the parameter form
SetParams(c) ==
    /\ Input
    /\ ps # <<>>
    /\ params' = [c EXCEPT !.maxFollowers = params.maxFollowers]
    /\ params' # params
    /\ cobs' = NoFrame
    /\ UNCHANGED <<ps, winner, running, initialAlive, gScaleCurrent, stopTimers,
                   seed, build, cfight>>

\* onStart / onReset with avatars: buildParticles seeds rng, builds its first
\* particle and awaits that particle's image; onReset clears running first
buildBegin(kind) ==
    /\ Input
    /\ avatars
    /\ ~build.on
    /\ kind = "reset" => ps # <<>>
    /\ running' = IF kind = "reset" THEN FALSE ELSE running
    /\ build' = [on |-> TRUE, kind |-> kind, seed |-> seed, speed |-> params.speed,
                 n |-> Min(MaxCount, params.maxFollowers),
                 loaded |-> <<newParticle(0, seed)>>, used |-> 1]
    /\ cobs' = NoFrame
    /\ UNCHANGED <<ps, winner, initialAlive, gScaleCurrent, params, stopTimers, seed,
                   cfight>>

\* an awaited image has loaded (or failed): buildParticles goes on to the next
\* particle, built from the next rng() results, or to its end, after which
\* onStart draws the next seed s
imageLoaded(s) ==
    /\ route = "home"
    /\ build.on
    /\ UNCHANGED <<route, wvars, probe, xvars, ticks, msgs, toggles, avatars, gScaleCurrent,
                   params, stopTimers>>
    /\ IF Len(build.loaded) < build.n
       THEN /\ s = seed
            /\ build' = [build EXCEPT
                           !.loaded = Append(@, newParticle(build.used, seed)),
                           !.used = @ + 1]
            /\ UNCHANGED <<ps, winner, running, initialAlive, seed, cobs, cfight>>
       ELSE /\ ps' = [i \in 0 .. (build.n - 1) |-> build.loaded[i + 1]]
            /\ initialAlive' = build.n
            /\ winner' = Null
            /\ running' = TRUE
            /\ cfight' = NewCFight(build.n)
            /\ cobs' = NoFrame
            /\ build' = NoBuild(build.seed)
            /\ IF build.kind = "start" THEN seed' = s ELSE s = seed /\ seed' = seed

NextCanvas ==
    \/ \E el \in Elapsed, jit \in Jitters, roll \in Rolls, spot \in Respawns :
         Frame(el, jit, roll[1], roll[2], spot)
    \/ StopTimer
    \/ \E s \in Layouts : onStart(s)
    \/ onReset
    \/ \E c \in ParamPresets : SetParams(c)

\* ======================================================================
\* The page: one of the two views is mounted
\* ======================================================================
Mounted ==
    /\ route \in {"gpu", "home"}
    /\ ticks = 0
    /\ msgs = 0
    /\ toggles = 0
    /\ InitWorker
    /\ InitCanvas
    /\ route = "gpu" => params = [ParamsBase EXCEPT !.maxFollowers = 1] /\ seed = 0
    /\ route = "home" => count = 1 /\ cfg = CfgBase /\ gl /\ px[0] = Spots[1].x

\* no sweep of the growth target
NoProbe == [n0 |-> 0, alive |-> 0, target |-> 100, prev |-> 100]

\* the GPU view before Start, with no message sent
NoView == [started |-> FALSE, paused |-> FALSE, restored |-> FALSE, winner |-> -1,
           shown |-> 0, aliveCount |-> 0, resets |-> 0, posts |-> 0]

\* no run of buildLabelIndices: labelsCount, users (the length of the user
\* list) and alive (ui.aliveCount) are its inputs, uj and ur its
\* Math.random() results in thousandths; out is the list of indices it built
\* and hung whether it came into a loop that has no exit
NoLabels == [labelsCount |-> 0, users |-> 0, alive |-> 1, uj |-> 0, ur |-> 0,
             ran |-> FALSE, out |-> <<>>, hung |-> FALSE]

\* no call of pLimit: n is the limit, kinds the tasks (a task of resolveAvatars
\* returns without an await, "sync", or awaits a fetch), phase where each task
\* is, starts how often each task was called, resolved how often res was
\* called, done and total the progress counters
NoLimit == [n |-> 0, kinds |-> <<>>, phase |-> <<>>, i |-> 0, running |-> 0,
            results |-> <<>>, starts |-> <<>>, resolved |-> 0, called |-> FALSE,
            done |-> 0, total |-> 0]

\* the other views are not in use
Elsewhere ==
    /\ probe = NoProbe
    /\ view = NoView /\ inbox = <<>> /\ outbox = <<>> /\ epoch = 0
    /\ lab = NoLabels
    /\ pl = NoLimit

\* the follower list is empty: the view generates its followers
Init == Mounted /\ ~avatars /\ Elsewhere

Next == NextWorker \/ NextCanvas

Spec == Init /\ [][Next]_vars

\* ======================================================================
\* The worker's loop under 'pause' and 'resume'
\* ======================================================================
InitLoop == Init /\ route = "gpu" /\ cfg = CfgBase /\ count <= 2

NextLoop ==
    \/ \E el \in Elapsed, roll \in Rolls, smp \in Samples :
         loop(el, roll[1], roll[2], smp) /\ UNCHANGED xvars
    \/ \E el \in MsgElapsed : OnPause(el) /\ UNCHANGED xvars
    \/ \E el \in MsgElapsed : OnResume(el) /\ UNCHANGED xvars
    \/ \E el \in MsgElapsed, layout \in Layouts :
         OnReset(el, layout) /\ UNCHANGED xvars
    \/ \E el \in MsgElapsed, v \in {0, cfg.hpMax} :
         OnHpSetAll(el, v) /\ UNCHANGED xvars
    \/ \E el \in MsgElapsed, sendOnce \in BOOLEAN :
         OnLabelsConfig(el, <<0>>, sendOnce) /\ UNCHANGED xvars
    \/ \E el \in MsgElapsed, c \in ConfigsSent : OnConfig(el, c) /\ UNCHANGED xvars
    \/ \E el \in MsgElapsed, m \in {"fps", "resize"} :
         OnFpsOrResize(el, m) /\ UNCHANGED xvars
    \/ loopPaused

SpecLoop == InitLoop /\ [][NextLoop]_vars

\* ======================================================================
\* The canvas view with a follower list whose entries have avatars
\* ======================================================================
InitAvatars ==
    /\ Mounted
    /\ route = "home"
    /\ avatars
    /\ params = [ParamsBase EXCEPT !.maxFollowers = params.maxFollowers]
    /\ Elsewhere

NextAvatars ==
    \/ \E el \in Elapsed, jit \in Jitters, roll \in Rolls, spot \in Respawns :
         Frame(el, jit, roll[1], roll[2], spot)
    \/ StopTimer
    \/ \E kind \in {"start", "reset"} : buildBegin(kind)
    \/ \E s \in Layouts : imageLoaded(s)

SpecAvatars == InitAvatars /\ [][NextAvatars]_vars

\* ======================================================================
\* GPU view (Gpu.vue): buildLabelIndices
\* ======================================================================

\* the worker and the canvas view while another view is mounted
Parked ==
    /\ ticks = 0
    /\ msgs = 0
    /\ toggles = 0
    /\ InitWorker
    /\ InitCanvas
    /\ count = 1 /\ cfg = CfgBase /\ gl /\ px[0] = Spots[1].x
    /\ params = [ParamsBase EXCEPT !.maxFollowers = 1] /\ seed = 0 /\ ~avatars

Range(q) == {q[k] : k \in DOMAIN q}

\* "while (taken.has(idx) && tries++ < 8) idx = (idx + 1) % ui.aliveCount"
RECURSIVE probeEight(_, _, _, _)
probeEight(idx, taken, tries, alive) ==
    IF idx \in taken /\ tries < 8
    THEN probeEight((idx + 1) % alive, taken, tries + 1, alive)
    ELSE idx

\* "while (taken.has(r)) r = (r + 1) % ui.aliveCount", entered with an index
\* that is not taken somewhere: the first one from r on
RECURSIVE probeFree(_, _, _)
probeFree(r, taken, alive) ==
    IF r \in taken THEN probeFree((r + 1) % alive, taken, alive) ELSE r

\* buildLabelIndices, the loop "for (let i = 0; i < K; i++)" from i on, out
\* being the indices built so far; the last loop has no exit when every
\* index of [0, aliveCount) is taken
RECURSIVE indicesFrom(_, _, _, _, _, _)
indicesFrom(i, out, K, alive, uj, ur) ==
    IF i >= K THEN [out |-> out, hung |-> FALSE]
    ELSE LET stride == Max(1, alive \div K)        \* "step"
             base == ((2 * i + 1) * stride) \div 2
             jitter == ((uj - 500) * stride) \div 2000
             first == Min(alive - 1, Max(0, base + jitter))
             taken == Range(out)
             idx == probeEight(first, taken, 0, alive)
         IN IF idx \notin taken
            THEN indicesFrom(i + 1, Append(out, idx), K, alive, uj, ur)
            ELSE IF \A r \in 0 .. (alive - 1) : r \in taken
            THEN [out |-> out, hung |-> TRUE]
            ELSE indicesFrom(i + 1,
                             Append(out, probeFree((ur * alive) \div 1000, taken, alive)),
                             K, alive, uj, ur)

\* buildLabelIndices: the indices it posts in 'labelsConfig' (none when K is
\* 0), or that it hangs
labelIndicesOf(labelsCount, users, alive, uj, ur) ==
    LET K == Max(0, Min(labelsCount, users))
    IN IF K = 0 THEN [out |-> <<>>, hung |-> FALSE]
       ELSE indicesFrom(0, <<>>, K, alive, uj, ur)

RandomsJ == {0, 500, 999}
RandomsR == {0, 999}

InitLabels ==
    /\ route = "gpu"
    /\ Parked
    /\ probe = NoProbe
    /\ view = NoView /\ inbox = <<>> /\ outbox = <<>> /\ epoch = 0
    /\ pl = NoLimit
    /\ \E lc \in 0 .. MaxLabels, n \in 0 .. MaxUsers, alive \in 1 .. MaxAlive,
          uj \in RandomsJ, ur \in RandomsR :
         lab = [NoLabels EXCEPT !.labelsCount = lc, !.users = n, !.alive = alive,
                                !.uj = uj, !.ur = ur]

\* buildLabelIndices, before the fight is started (there is no worker)
buildLabelIndices ==
    /\ ~lab.ran
    /\ ~view.started
    /\ \E res \in {labelIndicesOf(lab.labelsCount, lab.users, lab.alive,
                                  lab.uj, lab.ur)} :
         lab' = [lab EXCEPT !.ran = TRUE, !.out = res.out, !.hung = res.hung]
    /\ UNCHANGED <<route, wvars, cvars, probe, view, inbox, outbox, epoch, pl,
                   ticks, msgs, toggles>>

SpecLabels == InitLabels /\ [][buildLabelIndices]_vars

\* ======================================================================
\* Parser view (Parser.vue): pLimit as resolveAvatars calls it
\* ======================================================================

\* the row a task returns (tasks are numbered from 0)
rowOf(cur) == 10 + cur

\* a while loop of next that starts tasks while running <= n
RECURSIVE startTasksOver(_)
startTasksOver(P) ==
    IF P.running <= P.n /\ P.i < Len(P.kinds)
    THEN LET cur == P.i
             sync == P.kinds[cur + 1] = "sync"
         IN startTasksOver([P EXCEPT !.i = @ + 1,
                                     !.running = @ + 1,
                                     !.starts[cur + 1] = @ + 1,
                                     !.phase[cur + 1] = IF sync THEN "returned"
                                                        ELSE "running",
                                     !.done = @ + (IF sync THEN 1 ELSE 0)])
    ELSE P

\* pLimit, next: "while (running < n && i < tasks.length)"; tasks[cur]() runs
\* the task up to its first await, which for a row without a user or with a
\* cached avatar is up to its return (progress.done++ included)
RECURSIVE startTasks(_)
startTasks(P) ==
    IF P.running < P.n /\ P.i < Len(P.kinds)
    THEN LET cur == P.i
             sync == P.kinds[cur + 1] = "sync"
         IN startTasks([P EXCEPT !.i = @ + 1,
                                 !.running = @ + 1,
                                 !.starts[cur + 1] = @ + 1,
                                 !.phase[cur + 1] = IF sync THEN "returned"
                                                    ELSE "running",
                                 !.done = @ + (IF sync THEN 1 ELSE 0)])
    ELSE P

\* pLimit, next
nextOf(P) ==
    IF P.i >= Len(P.kinds) /\ P.running = 0
    THEN [P EXCEPT !.resolved = @ + 1]
    ELSE startTasks(P)

\* pLimit(n, tasks): the executor of the promise runs next() once
pLimit(P) ==
    nextOf([P EXCEPT !.i = 0, !.running = 0,
                     !.results = [k \in 1 .. Len(P.kinds) |-> 0]])

NotParser == <<route, wvars, cvars, probe, view, inbox, outbox, epoch, lab,
               ticks, msgs, toggles>>

\* resolveAvatars with a proxy URL and rows
resolveAvatars ==
    /\ route = "parser"
    /\ ~pl.called
    /\ pl.kinds # <<>>
    /\ pl' = pLimit([pl EXCEPT !.called = TRUE, !.done = 0,
                               !.total = Len(pl.kinds)])
    /\ UNCHANGED NotParser

\* pLimit called with an empty list of tasks
pLimitEmpty ==
    /\ route = "parser"
    /\ ~pl.called
    /\ pl.kinds = <<>>
    /\ pl' = pLimit([pl EXCEPT !.called = TRUE])
    /\ UNCHANGED NotParser

\* a task that awaited its fetch comes to its return: "finally
\* { progress.done++ }"
taskReturns(k) ==
    /\ route = "parser"
    /\ k \in DOMAIN pl.phase
    /\ pl.phase[k] = "running"
    /\ pl' = [pl EXCEPT !.phase[k] = "returned", !.done = @ + 1]
    /\ UNCHANGED NotParser

\* the callbacks on a task's promise: then "results[cur] = v", finally
\* "running--; next()"
taskSettled(k) ==
    /\ route = "parser"
    /\ k \in DOMAIN pl.phase
    /\ pl.phase[k] = "returned"
    /\ pl' = nextOf([pl EXCEPT !.phase[k] = "settled",
                               !.results[k] = rowOf(k - 1),
                               !.running = @ - 1])
    /\ UNCHANGED NotParser

InitLimit ==
    /\ route = "parser"
    /\ Parked
    /\ probe = NoProbe
    /\ view = NoView /\ inbox = <<>> /\ outbox = <<>> /\ epoch = 0
    /\ lab = NoLabels
    /\ \E n \in 1 .. MaxN, len \in 0 .. MaxTasks :
         \E kinds \in [1 .. len -> {"sync", "fetch"}] :
           pl = [NoLimit EXCEPT !.n = n, !.kinds = kinds,
                                !.phase = [k \in 1 .. len |-> "waiting"],
                                !.results = [k \in 1 .. len |-> 0],
                                !.starts = [k \in 1 .. len |-> 0]]

NextLimit ==
    \/ resolveAvatars
    \/ pLimitEmpty
    \/ \E k \in 1 .. MaxTasks : taskReturns(k)
    \/ \E k \in 1 .. MaxTasks : taskSettled(k)

SpecLimit == InitLimit /\ [][NextLimit]_vars

\* ======================================================================
\* targetGrowthScale along a sweep of the living count, from the initial
\* population n0 down to 0, with the default growth parameters
\* ======================================================================
InitGrowth ==
    /\ Mounted
    /\ route = "home"
    /\ ~avatars
    /\ params = [ParamsBase EXCEPT !.maxFollowers = 1]
    /\ seed = 0
    /\ view = NoView /\ inbox = <<>> /\ outbox = <<>> /\ epoch = 0
    /\ lab = NoLabels
    /\ pl = NoLimit
    /\ \E n0 \in 1 .. MaxPop :
         probe = [n0 |-> n0, alive |-> n0, target |-> growthTarget(n0, n0, params),
                  prev |-> growthTarget(n0, n0, params)]

Sweep ==
    /\ probe.alive > 0
    /\ probe' = [probe EXCEPT !.alive = @ - 1,
                              !.target = growthTarget(probe.alive - 1, probe.n0, params),
                              !.prev = probe.target]
    /\ UNCHANGED <<route, wvars, cvars, xvars, ticks, msgs, toggles>>

SpecGrowth == InitGrowth /\ [][Sweep]_vars

\* ======================================================================
\* Properties
\* ======================================================================

\* the agents of an hp array with hp > 0
hpPositive(h) == {i \in DOMAIN h : h[i] > 0}

\* velocities are whole pixels per second, so a clamped speed is exact to
\* 1 px/s (10 tenths): the speed of v is within [lo, hi] to that resolution
speedWithin(v, lo, hi) ==
    /\ HypotT(v[1], v[2]) >= 10 * lo - 10
    /\ HypotT(v[1], v[2]) <= 10 * hi + 10

\* C1: worker, within one fight: a tick posts 'winner' if and only if it ends
\* with aliveCount = 1 and the tick before it ended with aliveCount > 1 (for
\* the fight's first tick: the fight began with more than one agent)
C1_WinnerIffTransition ==
    wobs.ran => (wobs.post <=> (aliveCount = 1 /\ fight.prevAlive > 1))

\* C2: canvas, endless off for the whole fight: the winner is raised at most
\* once per fight and at most one stop timer is scheduled for it
C2_WinnerRaisedOnce ==
    (route = "home" /\ cfight.plain) => (cfight.raised <= 1 /\ cfight.timers <= 1)

\* C3: worker: in a fight of at least two agents that follows a fight whose
\* 'winner' was posted, the tick that takes aliveCount from above 1 to exactly
\* 1 posts 'winner', and the fight posts no second one
C3_LatchRearms ==
    (route = "gpu" /\ fight.before >= 1 /\ fight.start >= 2)
      => /\ fight.winners <= 1
         /\ (wobs.ran /\ aliveCount = 1 /\ fight.prevAlive > 1)
              => (wobs.post /\ fight.winners = 1)

C3_Witness ==
    /\ route = "gpu"
    /\ fight.before >= 1
    /\ fight.start >= 2
    /\ wobs.ran
    /\ wobs.post
    /\ fight.prevAlive > 1

\* C4: no tick raises the living count when endless is off: the worker's
\* agents with hp > 0, the canvas view's particles that are alive and not dying
C4_LivingNeverIncreases ==
    /\ wobs.ran =>
         Cardinality(hpPositive(hp)) <= Cardinality(hpPositive(wobs.pre.hp))
    /\ (cobs.ran /\ ~params.endless) =>
         Cardinality(living(ps)) <= Cardinality(living(cobs.pre))

\* a tick of the worker with collisions disabled that lowered the count
C4_Witness ==
    /\ wobs.ran
    /\ ~cfg.collisions
    /\ Cardinality(hpPositive(hp)) < Cardinality(hpPositive(wobs.pre.hp))

\* C5: with 0 < minSpeed <= maxSpeed, every living agent's speed is within
\* [minSpeed, maxSpeed] when the integrator has run and again when the
\* collisions have been resolved
C5_SpeedWithinBounds ==
    /\ (wobs.ran /\ 0 < cfg.minSpeedCss /\ cfg.minSpeedCss <= cfg.maxSpeedCss) =>
         \A i \in Agents :
           /\ wobs.mid.hp[i] > 0 =>
                speedWithin(<<wobs.mid.vx[i], wobs.mid.vy[i]>>,
                            cfg.minSpeedCss, cfg.maxSpeedCss)
           /\ hp[i] > 0 =>
                speedWithin(<<vx[i], vy[i]>>, cfg.minSpeedCss, cfg.maxSpeedCss)
    /\ (cobs.ran /\ 0 < params.minSpeed /\ params.minSpeed <= params.maxSpeed) =>
         /\ \A i \in living(cobs.mid) :
              speedWithin(<<cobs.mid[i].vx, cobs.mid[i].vy>>,
                          params.minSpeed, params.maxSpeed)
         /\ \A i \in living(cobs.col) :
              speedWithin(<<cobs.col[i].vx, cobs.col[i].vy>>,
                          params.minSpeed, params.maxSpeed)

\* a particle respawned by the last frame, below minSpeed before the clamp
C5_Witness ==
    /\ cobs.ran
    /\ params.endless
    /\ 0 < params.minSpeed
    /\ params.minSpeed <= params.maxSpeed
    /\ \E i \in living(cobs.col), spot \in Respawns :
         /\ cobs.col[i].x = spot.x
         /\ cobs.col[i].hp = cobs.col[i].maxHp
         /\ cobs.mid[i].x # spot.x
         /\ Pct(RDiv(Abs(spot.vx) * 80, 1000), params.speed) < params.minSpeed

\* C6: when a tick ends, every living agent's centre is within
\* [effR, W - effR] x [effR, H - effR], effR being its effective radius in
\* that tick
C6_InsideArena ==
    /\ wobs.ran =>
         \A i \in hpPositive(hp) :
           /\ wobs.r <= px[i] /\ px[i] <= ArenaW - wobs.r
           /\ wobs.r <= py[i] /\ py[i] <= ArenaH - wobs.r
    /\ cobs.ran =>
         \A i \in living(ps) :
           /\ getEffR(ps[i], cobs.gScale) <= ps[i].x
           /\ ps[i].x <= ArenaW - getEffR(ps[i], cobs.gScale)
           /\ getEffR(ps[i], cobs.gScale) <= ps[i].y
           /\ ps[i].y <= ArenaH - getEffR(ps[i], cobs.gScale)

\* the distance of two points, in tenths of a pixel
gap(ax, ay, bx, by) == Sqrt((bx - ax) * (bx - ax) + (by - ay) * (by - ay))

\* C7: two living agents of one effective radius r that overlap and are at
\* rest, with elasticity 1 and damage range [10, 10]: the tick leaves their
\* centres 2r apart and takes exactly 10 from each one's health; a health of
\* 0 or less then counts the agent as not alive (worker) or makes it Dying
\* (canvas, endless off).  Positions are whole tenths of a pixel, so "2r
\* apart" is exact to 2 tenths.
C7_TwoAgentScenario ==
    /\ (/\ wobs.ran
        /\ cfg.collisions
        /\ cfg.dmgHitMin = 10 /\ cfg.dmgHitMax = 10
        /\ Agents = {0, 1}
        /\ hpPositive(wobs.pre.hp) = {0, 1}
        /\ \A i \in Agents : wobs.pre.vx[i] = 0 /\ wobs.pre.vy[i] = 0
        /\ gap(wobs.pre.px[0], wobs.pre.py[0], wobs.pre.px[1], wobs.pre.py[1])
             < 2 * wobs.r)
         => /\ Abs(gap(px[0], py[0], px[1], py[1]) - 2 * wobs.r) <= 2
            /\ \A i \in Agents : hp[i] = wobs.pre.hp[i] - 10
            /\ \A i \in Agents : hp[i] <= 0 => aliveCount = 0
    /\ (/\ cobs.ran
        /\ params.elasticity = 100
        /\ params.damageMin = 10 /\ params.damageMax = 10
        /\ DOMAIN ps = {0, 1}
        /\ living(cobs.pre) = {0, 1}
        /\ \A i \in {0, 1} : cobs.pre[i].vx = 0 /\ cobs.pre[i].vy = 0
        /\ getEffR(cobs.pre[0], cobs.gScale) = getEffR(cobs.pre[1], cobs.gScale)
        /\ gap(cobs.pre[0].x, cobs.pre[0].y, cobs.pre[1].x, cobs.pre[1].y)
             < 2 * getEffR(cobs.pre[0], cobs.gScale))
         => /\ Abs(gap(cobs.col[0].x, cobs.col[0].y, cobs.col[1].x, cobs.col[1].y)
                   - 2 * getEffR(cobs.pre[0], cobs.gScale)) <= 2
            /\ \A i \in {0, 1} : cobs.col[i].hp = cobs.pre[i].hp - 10
            /\ \A i \in {0, 1} :
                 (cobs.col[i].hp <= 0 /\ ~params.endless)
                   => (cobs.col[i].alive /\ cobs.col[i].dying)

\* the three states of a particle; "None" is not alive and dying
status(p) ==
    IF p.alive /\ ~p.dying THEN "Alive"
    ELSE IF p.alive /\ p.dying THEN "Dying"
    ELSE IF ~p.alive /\ ~p.dying THEN "Dead"
    ELSE "None"

C9_EndlessKeepsPopulation ==
    (cobs.ran /\ cfight.endless) =>
      /\ \A i \in DOMAIN ps : status(ps[i]) = "Alive" /\ ps[i].hp > 0
      /\ Cardinality(living(ps)) = initialAlive
      /\ cfight.raised = 0
      /\ winner = Null

\* a particle whose health a collision of the last frame took to 0 or less
C9_Witness ==
    /\ cobs.ran
    /\ cfight.endless
    /\ \E i \in DOMAIN ps, spot \in Respawns :
         /\ cobs.mid[i].hp <= params.damageMax
         /\ cobs.mid[i].x # spot.x
         /\ ps[i].x = spot.x /\ ps[i].y = spot.y
         /\ ps[i].hp = ps[i].maxHp

\* C10: worker: the first tick after a 'resume' integrates the time since
\* that 'resume' was processed, capped at 50 ms
C10_DtFromResume ==
    (wobs.ran /\ wobs.resumed # 0) => wobs.dt = Min(50, now - wobs.resumed)

\* a tick 16 ms after the 'resume' that ended a pause
C10_Witness ==
    /\ wobs.ran
    /\ wobs.resumed # 0
    /\ fight.pausedAt # 0
    /\ fight.pausedAt < wobs.resumed
    /\ wobs.dt = 16

\* C11: worker: while paused no tick runs: a handler that starts and ends with
\* paused set is no step of the loop, posts no 'winner', 'alive' or 'labels'
\* from the loop, leaves positions and velocities as they are, and changes
\* health and aliveCount only when it handles 'hpSetAll'
C11_PausedFreezes ==
    [][(paused /\ paused') =>
         /\ ~wobs'.ran
         /\ wobs'.msg # "tick"
         /\ ~wobs'.post
         /\ UNCHANGED <<px, py, vx, vy>>
         /\ wobs'.msg # "hpSetAll" => UNCHANGED <<hp, aliveCount>>]_vars

\* paused for at least two handlers' time, the last one an 'hpSetAll'
C11_Witness ==
    /\ paused
    /\ started
    /\ wobs.msg = "hpSetAll"
    /\ now - lastTime >= 80

\* C12: a reset discards the previous fight: when 'reset' has been handled
\* (worker) or Reset / Start New Fight has built the particles (canvas), every
\* agent is alive at full health, the winner is cleared, and the smoothed
\* growth scale is 1.0 again
C12_ResetDiscards ==
    /\ (route = "gpu" /\ wobs.msg = "reset") =>
         /\ \A i \in Agents : hp[i] = cfg.hpMax
         /\ aliveCount = count
         /\ ~winnerSent
    /\ (route = "home" /\ ps # <<>> /\ cfight.ticks = 0) =>
         /\ \A i \in DOMAIN ps : status(ps[i]) = "Alive" /\ ps[i].hp = ps[i].maxHp
         /\ winner = Null
         /\ gScaleCurrent = 100

\* C13: canvas: the particles a build ends with are those of its seed, its
\* follower list, the arena and the parameters alone: position, velocity and
\* radius of every particle are what the same build yields when no frame
\* runs while it awaits
C13_BuildRepeatable ==
    (route = "home" /\ ps # <<>> /\ cfight.ticks = 0 /\ ~build.on) =>
      \A i \in DOMAIN ps :
        /\ ps[i].x = newParticle(i, build.seed).x
        /\ ps[i].y = newParticle(i, build.seed).y
        /\ ps[i].vx = Pct(RDiv(cSpotOf(i, build.seed).vx * 80, 1000), build.speed)
        /\ ps[i].vy = Pct(RDiv(cSpotOf(i, build.seed).vy * 80, 1000), build.speed)
        /\ ps[i].r = newParticle(i, build.seed).r

\* C14: worker: when 'init' could not obtain the WebGL2 context it posts
\* 'error', and whatever messages follow, the loop never runs: no tick, no
\* 'winner', and no 'alive' or 'labels' pulse of the loop
C14_NoLoopWithoutContext ==
    ~gl =>
      /\ wobs.msg = "init" => "error" \in wobs.out
      /\ ~started
      /\ ~wobs.ran
      /\ wobs.msg # "tick"
      /\ fight.ticks = 0
      /\ fight.winners = 0 /\ fight.before = 0
      /\ lastAlivePulse = 0
      /\ lastLabelsSent = 0

\* without a context, after a 'reset' that allocated the arrays and a
\* 'resume' that cleared paused
C14_Witness ==
    /\ ~gl
    /\ allocated
    /\ ~paused
    /\ wobs.msg = "resume"

visits(seen, i, j) ==
    Cardinality({k \in DOMAIN seen :
                   {seen[k][Len(seen[k]) - 1], seen[k][Len(seen[k])]} = {i, j}})

\* whether two cell indices of a grid gw cells wide are the same cell or
\* adjacent cells, diagonals included
adjacentCells(c, d, gw) ==
    /\ Abs((c % gw) - (d % gw)) <= 1
    /\ Abs((c \div gw) - (d \div gw)) <= 1

\* C16: one grid pass visits every unordered pair of eligible agents that the
\* grid put into one cell or into adjacent cells exactly once, and no pair
\* (i, i): the worker's first pass when the pair cap is not reached, the
\* canvas view's pass; a pair whose agents are both still eligible when the
\* pass ends is not skipped
C16_EachPairOnce ==
    /\ (wobs.ran /\ cfg.collisions) =>
         LET first == SelectSeq(wobs.seen, LAMBDA v : v[1] = 1)
         IN /\ \A k \in DOMAIN first : first[k][3] # first[k][4]
            /\ \A i, j \in hpPositive(wobs.mid.hp) :
                 (/\ i < j
                  /\ adjacentCells(cellOf(wobs.mid, i, wobs.r),
                                   cellOf(wobs.mid, j, wobs.r), gridW(wobs.r)))
                   => /\ visits(first, i, j) <= 1
                      /\ (/\ Len(first) < Max(1, cfg.maxPairsPerCell)
                          /\ {i, j} \subseteq hpPositive(hp))
                           => visits(first, i, j) = 1
    /\ cobs.ran =>
         LET cell == cellSize(cobs.mid, cobs.gScale)
         IN /\ \A k \in DOMAIN cobs.seen : cobs.seen[k][1] # cobs.seen[k][2]
            /\ \A i, j \in living(cobs.mid) :
                 (/\ i < j
                  /\ Abs(cellKey(cobs.mid[i], cell)[1]
                         - cellKey(cobs.mid[j], cell)[1]) <= 1
                  /\ Abs(cellKey(cobs.mid[i], cell)[2]
                         - cellKey(cobs.mid[j], cell)[2]) <= 1)
                   => /\ visits(cobs.seen, i, j) <= 1
                      /\ {i, j} \subseteq living(cobs.col)
                           => visits(cobs.seen, i, j) = 1

C18_CoincidentSeparated ==
    /\ (wobs.ran /\ cfg.collisions) =>
         \A i, j \in Agents :
           (/\ i < j
            /\ hpPositive(wobs.mid.hp) = {i, j}
            /\ wobs.mid.px[i] = wobs.mid.px[j]
            /\ wobs.mid.py[i] = wobs.mid.py[j]
            /\ \E k \in DOMAIN wobs.hits : wobs.hits[k] = <<i, j>>)
             => (px[i] # px[j] \/ py[i] # py[j])
    /\ cobs.ran =>
         \A i, j \in DOMAIN cobs.mid :
           (/\ i < j
            /\ living(cobs.mid) = {i, j}
            /\ cobs.mid[i].x = cobs.mid[j].x
            /\ cobs.mid[i].y = cobs.mid[j].y
            /\ cobs.col[i].hp < cobs.mid[i].hp \/ cobs.col[i].x # cobs.mid[i].x)
             => (cobs.col[i].x # cobs.col[j].x \/ cobs.col[i].y # cobs.col[j].y)

\* C19: canvas: a tick moves the smoothed growth scale toward its target by
\* the fraction alpha of that tick's dt; a dt of at most 33 ms is far below
\* growthSmoothSec (0.9 s), so when the target differs from the scale the
\* tick covers only part of the distance
C19_GrowthSmoothed ==
    (cobs.ran /\ params.growthEnabled /\ 10 * cobs.dt < params.growthSmoothSec) =>
      LET target == targetGrowthScale(Cardinality(living(cobs.pre)))
      IN target # cobs.gPre =>
           Abs(cobs.gScale - cobs.gPre) < Abs(target - cobs.gPre)

\* C20: worker: in every grid pass and for every base cell, at most
\* max(1, maxPairsPerCell) pairs come to the circle test, counted over the
\* cell's whole forward neighbourhood; a pair that did not come to the test
\* is not resolved, and an agent none of whose pairs came to the test keeps
\* its position, velocity and health through the collision phase
C20_PairCap ==
    (wobs.ran /\ cfg.collisions) =>
      /\ \A k \in DOMAIN wobs.seen :
           Cardinality({m \in DOMAIN wobs.seen :
                          /\ wobs.seen[m][1] = wobs.seen[k][1]
                          /\ wobs.seen[m][2] = wobs.seen[k][2]})
             <= Max(1, cfg.maxPairsPerCell)
      /\ \A k \in DOMAIN wobs.hits : visits(wobs.seen, wobs.hits[k][1], wobs.hits[k][2]) >= 1
      /\ \A i \in Agents :
           (\A k \in DOMAIN wobs.seen : i \notin {wobs.seen[k][3], wobs.seen[k][4]})
             => /\ px[i] = wobs.mid.px[i] /\ py[i] = wobs.mid.py[i]
                /\ vx[i] = wobs.mid.vx[i] /\ vy[i] = wobs.mid.vy[i]
                /\ hp[i] = wobs.mid.hp[i]

\* a tick under a cap of one pair in which two overlapping eligible agents of
\* adjacent cells did not come to the circle test
C20_Witness ==
    /\ wobs.ran /\ cfg.collisions /\ Max(1, cfg.maxPairsPerCell) = 1
    /\ wobs.seen # <<>>
    /\ \E i, j \in hpPositive(wobs.mid.hp) :
         /\ i < j
         /\ adjacentCells(cellOf(wobs.mid, i, wobs.r), cellOf(wobs.mid, j, wobs.r),
                          gridW(wobs.r))
         /\ (wobs.mid.px[j] - wobs.mid.px[i]) * (wobs.mid.px[j] - wobs.mid.px[i])
              + (wobs.mid.py[j] - wobs.mid.py[i]) * (wobs.mid.py[j] - wobs.mid.py[i])
              <= 4 * wobs.r * wobs.r
         /\ visits(wobs.seen, i, j) = 0
         /\ {i, j} \subseteq hpPositive(hp)

\* C21: worker, collisions off: every pair the fallback samples that consists
\* of two distinct living agents has one common damage value of
\* [min(dmgHitMin, dmgHitMax), max(dmgHitMin, dmgHitMax)] subtracted from the
\* health of both agents (one sample per tick here: count >> 2 = 1)
C21_SampledPairDamaged ==
    (wobs.ran /\ ~cfg.collisions /\ Len(wobs.smp) = 1) =>
      LET i == wobs.smp[1][1]
          j == wobs.smp[1][2]
          dmin == Min(cfg.dmgHitMin, cfg.dmgHitMax)
          dmax == Max(cfg.dmgHitMin, cfg.dmgHitMax)
      IN (i # j /\ wobs.mid.hp[i] > 0 /\ wobs.mid.hp[j] > 0) =>
           \E d \in dmin .. dmax :
             /\ hp[i] = wobs.mid.hp[i] - d
             /\ hp[j] = wobs.mid.hp[j] - d

\* C22: worker: once an 'init' with a context has made its call of loop(),
\* exactly one loop callback is pending whenever a handler has returned,
\* whatever pause, resume, reset, config, fps, resize, hpSetAll and
\* labelsConfig messages and timer callbacks have run
C22_OneCallbackPending ==
    (gl /\ started) => timers = 1

\* a step of the loop in a fight that was paused and resumed before it
C22_Witness ==
    /\ gl /\ started /\ wobs.ran
    /\ toggles >= 2
    /\ fight.pausedAt # 0
    /\ timers = 1

\* C23: worker: within one tick an unordered pair of agents is damaged at
\* most once, also when the radius grew by more than 10% and a second
\* narrow-phase pass runs
C23_PairDamagedOnce ==
    (wobs.ran /\ cfg.collisions) =>
      \A k, m \in DOMAIN wobs.hits :
        k # m => {wobs.hits[k][1], wobs.hits[k][2]} # {wobs.hits[m][1], wobs.hits[m][2]}

\* C24: a non-endless fight whose last two living agents were eliminated in
\* one tick has a living count of 0 and no winner from then on: the worker
\* posts no 'winner' in that tick or in a later tick of the fight, the canvas
\* view sets no winner and schedules no stop timer
C24_DoubleKnockOut ==
    /\ fight.ko =>
         /\ aliveCount = 0
         /\ fight.winners = 0
         /\ ~wobs.post
    /\ (cfight.ko /\ cfight.plain) =>
         /\ living(ps) = {}
         /\ winner = Null
         /\ cfight.raised = 0
         /\ cfight.timers = 0

\* the worker has run a tick after the one that eliminated the last two
C24_Witness ==
    /\ fight.ko
    /\ wobs.ran
    /\ fight.prevAlive = 0
    /\ fight.ticks >= 2

\* C26: canvas: a stop timer only ever stops the fight whose winner scheduled
\* it: a fight that Start New Fight or Reset has built and set running is
\* not running only when a winner of its own has scheduled a timer
C26_TimerStopsOwnFight ==
    (route = "home" /\ ps # <<>> /\ ~build.on /\ ~running) => cfight.timers > 0

\* C30: pLimit(n, tasks), n >= 1, tasks that do not reject: never more than
\* n tasks are in flight, no task is started twice and all are started when
\* the promise resolves, it resolves only when every task has settled, with
\* results[k] the value of tasks[k], and at once for an empty list; when
\* resolveAvatars' call resolves, progress.done equals progress.total
C30_Limiter ==
    pl.called =>
      LET T == DOMAIN pl.kinds
          inFlight == {k \in T : pl.phase[k] \in {"running", "returned"}}
      IN /\ Cardinality(inFlight) <= pl.n
         /\ \A k \in T : pl.starts[k] <= 1
         /\ pl.resolved <= 1
         /\ T = {} => pl.resolved = 1
         /\ pl.resolved > 0 =>
              /\ \A k \in T : /\ pl.phase[k] = "settled"
                              /\ pl.starts[k] = 1
                              /\ pl.results[k] = rowOf(k - 1)
              /\ pl.done = pl.total

\* a resolved call with more tasks than the limit, one of them a fetch
C30_Witness ==
    /\ pl.called
    /\ pl.resolved = 1
    /\ Len(pl.kinds) > pl.n
    /\ \E k \in DOMAIN pl.kinds : pl.kinds[k] = "fetch"
    /\ pl.done = Len(pl.kinds)

\* C28: buildLabelIndices terminates and builds K = min(labelsCount, number
\* of users) pairwise distinct indices, each in [0, aliveCount), whatever
\* labelsCount >= 0, the length of the user list and aliveCount >= 1 are
C28_LabelIndices ==
    lab.ran =>
      LET K == Min(lab.labelsCount, lab.users)
      IN /\ ~lab.hung
         /\ Len(lab.out) = K
         /\ \A a, b \in DOMAIN lab.out : a # b => lab.out[a] # lab.out[b]
         /\ \A a \in DOMAIN lab.out : lab.out[a] \in 0 .. (lab.alive - 1)

\* ======================================================================
\* GPU view (Gpu.vue) and its worker, with the messages between them
\* ======================================================================

\* the view after startFight: the worker is in its 'init' handler, about to
\* call loop(), and the 'config' and 'labelsConfig' that startFight posted
\* after 'init' are waiting. ui.paused is what useLocalStorage restored; the
\* user list has one entry and labelsCount is 1
InitGpu ==
    /\ route = "gpu"
    /\ ticks = 0 /\ msgs = 0 /\ toggles = 0
    /\ InitWorker
    /\ InitCanvas
    /\ params = [ParamsBase EXCEPT !.maxFollowers = 1] /\ seed = 0 /\ ~avatars
    /\ gl /\ cfg = CfgBase /\ count <= 2
    /\ probe = NoProbe /\ lab = NoLabels /\ pl = NoLimit
    /\ \E p \in BOOLEAN :
         view = [NoView EXCEPT !.started = TRUE, !.paused = p, !.restored = p,
                               !.aliveCount = count]
    /\ \E uj \in RandomsJ, ur \in RandomsR :
         inbox = <<[type |-> "config", indices |-> <<>>],
                   [type |-> "labelsConfig",
                    indices |-> labelIndicesOf(1, 1, count, uj, ur).out]>>
    /\ outbox = <<>>
    /\ epoch = 0

\* the worker's next message is of type t; it is taken off the queue and its
\* handler runs
received(el, t, posted) ==
    /\ inbox # <<>>
    /\ Head(inbox).type = t
    /\ inbox' = Tail(inbox)
    /\ Handled(el, t, posted)
    /\ UNCHANGED <<msgs, toggles, view, outbox, lab, pl>>

\* loop() in the worker of a view: its 'winner' message goes to the view, with
\* the index of the agent that is left
GpuTick(el, ang, u, smp) ==
    /\ loop(el, ang, u, smp)
    /\ outbox' = IF wobs'.post
                 THEN Append(outbox,
                             [index |-> CHOOSE i \in DOMAIN hp' : hp'[i] > 0,
                              gen |-> epoch])
                 ELSE outbox
    /\ UNCHANGED <<view, inbox, epoch, lab, pl>>

GpuConfig(el) ==
    /\ received(el, "config", {})
    /\ config(CfgBase)
    /\ UNCHANGED epoch

GpuLabelsConfig(el) ==
    /\ received(el, "labelsConfig",
                IF inbox = <<>> THEN {} ELSE labelsPosted(Head(inbox).indices, TRUE))
    /\ labelsConfig(Head(inbox).indices)
    /\ UNCHANGED epoch

GpuPause(el) ==
    /\ received(el, "pause", {})
    /\ pause
    /\ UNCHANGED <<labelIndices, epoch>>

GpuResume(el) ==
    /\ received(el, "resume", {})
    /\ resume
    /\ UNCHANGED <<labelIndices, epoch>>

GpuReset(el, layout) ==
    /\ received(el, "reset", {})
    /\ reset(layout)
    /\ epoch' = epoch + 1

\* 'setCount': no branch of onmessage has this type, the handler returns
GpuSetCount(el) ==
    /\ received(el, "setCount", {})
    /\ UNCHANGED <<px, py, vx, vy, hp, aliveCount, winnerSent, paused, lastTime,
                   cfg, lastR, fight, resumedAt, labelIndices, epoch>>

\* the view does something while the worker does nothing
viewOnly ==
    UNCHANGED <<route, wvars, cvars, probe, lab, pl, ticks, msgs, toggles, epoch>>

\* togglePause()
togglePause ==
    /\ route = "gpu" /\ view.started
    /\ view.posts < MaxPosts
    /\ view' = [view EXCEPT !.paused = ~view.paused, !.posts = @ + 1]
    /\ inbox' = Append(inbox, [type |-> IF view.paused THEN "resume" ELSE "pause",
                               indices |-> <<>>])
    /\ UNCHANGED outbox
    /\ viewOnly

\* restartFight(), from the end of its countdown
restartFight ==
    /\ route = "gpu" /\ view.started
    /\ view.posts < MaxPosts
    /\ view' = [view EXCEPT !.winner = Null, !.paused = FALSE, !.resets = @ + 1,
                            !.posts = @ + 1]
    /\ inbox' = Append(inbox, [type |-> "reset", indices |-> <<>>])
    /\ UNCHANGED outbox
    /\ viewOnly

\* applyCountChange(N): 'setCount', then buildLabelIndices() with the new
\* ui.aliveCount
applyCountChange(N, uj, ur) ==
    /\ route = "gpu" /\ view.started
    /\ N # view.aliveCount
    /\ view.posts + 2 <= MaxPosts
    /\ view' = [view EXCEPT !.aliveCount = N, !.posts = @ + 2]
    /\ inbox' = inbox \o <<[type |-> "setCount", indices |-> <<>>],
                           [type |-> "labelsConfig",
                            indices |-> labelIndicesOf(1, 1, N, uj, ur).out]>>
    /\ UNCHANGED outbox
    /\ viewOnly

\* worker.onmessage of the view, 'winner'
onWinner ==
    /\ route = "gpu" /\ view.started
    /\ outbox # <<>>
    /\ outbox' = Tail(outbox)
    /\ view' = [view EXCEPT !.winner = Head(outbox).index, !.shown = Head(outbox).gen]
    /\ UNCHANGED inbox
    /\ viewOnly

NextGpu ==
    \/ \E el \in Elapsed, roll \in Rolls, smp \in Samples :
         GpuTick(el, roll[1], roll[2], smp)
    \/ loopPaused
    \/ \E el \in MsgElapsed : GpuConfig(el)
    \/ \E el \in MsgElapsed : GpuLabelsConfig(el)
    \/ \E el \in MsgElapsed : GpuPause(el)
    \/ \E el \in MsgElapsed : GpuResume(el)
    \/ \E el \in MsgElapsed, layout \in Layouts : GpuReset(el, layout)
    \/ \E el \in MsgElapsed : GpuSetCount(el)
    \/ togglePause
    \/ restartFight
    \/ \E N \in 1 .. MaxAlive, uj \in RandomsJ, ur \in RandomsR :
         applyCountChange(N, uj, ur)
    \/ onWinner

SpecGpu == InitGpu /\ [][NextGpu]_vars

\* C25: after restartFight has cleared the winner and posted 'reset', the
\* winner the view displays is one of the fight that this 'reset' begins:
\* the 'winner' message it shows was posted after the worker had handled as
\* many 'reset' messages as the view has posted.
C25_NoStaleWinner == view.winner # Null => view.shown = view.resets

\* C27: every index in the worker's label list, taken from the view's
\* 'labelsConfig', is an index of the worker's arrays, also after the user
\* has changed the population count.
C27_LabelIndicesValid ==
    route = "gpu" /\ view.started =>
        \A k \in DOMAIN labelIndices : labelIndices[k] \in 0 .. (count - 1)

\* C29: when the worker has handled every message of the view, ui.paused is
\* the worker's paused, also when the view started with ui.paused = true
\* restored from the persisted settings.
C29_PausedAgrees ==
    route = "gpu" /\ view.started /\ inbox = <<>> => view.paused = paused

====
